---- MODULE Spec2Model ----
(***************************************************************************)
(* Coordination engine of the event-planning agents: the session's phase  *)
(* state machine (models/coordination_session.py) driven by the           *)
(* CoordinationAgent (agents/coordination_agent.py) on top of the         *)
(* BaseAgent lifecycle (agents/base_agent.py).                            *)
(*                                                                         *)
(* One action is one complete call of a lifecycle method or one complete  *)
(* dispatch of a message to the engine.  The session repository is a      *)
(* document store whose update succeeds; no message bus is attached, so   *)
(* send_message buffers.  `sent' and `persisted' hold what the last       *)
(* operation sent and how often it wrote the session.                     *)
(***************************************************************************)
EXTENDS Integers, Sequences, FiniteSets, TLC

VARIABLES status, coordination_session, managed_agents, sent, persisted,
          response, recovery, lastOp,
          agent, call, store, writers, instances, scheduler, venue

\* the coordination engine of one session
engineVars == <<status, coordination_session, managed_agents, sent, persisted,
                response, recovery, lastOp>>

\* one agent of the message substrate and its last call; the session store
\* and the engines that write to it; the agents of unrelated sessions
substrateVars == <<agent, call>>
storeVars == <<store, writers>>
\* the scheduling agent and the venue agent of an event
plannerVars == <<scheduler, venue>>
otherVars == <<agent, call, store, writers, instances, scheduler, venue>>

vars == <<status, coordination_session, managed_agents, sent, persisted,
          response, recovery, lastOp, agent, call, store, writers, instances,
          scheduler, venue>>

(***************************************************************************)
(* Bounds of the model.                                                    *)
(***************************************************************************)
\* largest number of AgentInstance objects in session.active_agents
MaxAgents == 4
\* largest number of registrations of one agent name
MaxRepeats == 2
\* largest number of entries in session.error_log
MaxErrors == 1
\* largest number of session agents left waiting on a dependency
MaxWaiting == 1
\* largest number of accepted phase transitions that no agent completion
\* caused (the one of engine start and those of transition_phase commands)
MaxExternalTransitions == 2

(***************************************************************************)
(* Enumerations.                                                           *)
(***************************************************************************)
INITIALIZATION == "initialization"
PARTICIPANT_COLLECTION == "participant_collection"
SCHEDULE_COORDINATION == "schedule_coordination"
VENUE_COORDINATION == "venue_coordination"
CALENDAR_INTEGRATION == "calendar_integration"
FINAL_CONFIRMATION == "final_confirmation"
ANNOUNCEMENT == "announcement"
COMPLETED == "completed"

CoordinationPhase ==
    {INITIALIZATION, PARTICIPANT_COLLECTION, SCHEDULE_COORDINATION,
     VENUE_COORDINATION, CALENDAR_INTEGRATION, FINAL_CONFIRMATION,
     ANNOUNCEMENT, COMPLETED}

\* models.coordination_session.AgentStatus (status of a session agent)
ModelAgentStatus == {"idle", "active", "waiting", "completed", "error", "timeout"}

\* agents.base_agent.AgentStatus (status of the engine itself)
AgentStatus ==
    {"initializing", "idle", "active", "waiting", "completed", "error",
     "timeout", "paused"}

\* the agents the engine knows by name
AgentNames == {"participant_agent", "scheduling_agent", "venue_agent", "calendar_agent"}

\* payload values of the messages sent to the engine
NoValue == "none"
TaskInputs == {NoValue}
\* every agent reports a result, the calendar agent may also report none;
\* every failure carries a message, the one of the venue agent may lack it
ResultInputs(name) ==
    IF name = "calendar_agent" THEN {NoValue, "result_1"} ELSE {"result_1"}
ErrorMessageInputs(name) ==
    IF name = "venue_agent" THEN {NoValue, "message_1"} ELSE {"message_1"}
PhaseInputs == CoordinationPhase \cup {"bogus_phase"}

\* payload.get("error_message", default)
DefaultErrorMessage == "unknown_error"

Min(S) == CHOOSE x \in S : \A y \in S : x <= y
Max(S) == CHOOSE x \in S : \A y \in S : x >= y

(***************************************************************************)
(* CoordinationSession (models/coordination_session.py).                   *)
(***************************************************************************)
\* the session object does not exist before initialize()
NoSession ==
    [current_phase |-> NoValue, previous_phase |-> NoValue,
     active_agents |-> <<>>, completed_agents |-> <<>>,
     error_log |-> <<>>, checkpoints |-> <<>>,
     is_paused |-> FALSE, pause_reason |-> NoValue]

\* CoordinationSession(session_id, event_id, thread_ts): the field defaults
NewSession ==
    [current_phase |-> INITIALIZATION, previous_phase |-> NoValue,
     active_agents |-> <<>>, completed_agents |-> <<>>,
     error_log |-> <<>>, checkpoints |-> <<>>,
     is_paused |-> FALSE, pause_reason |-> NoValue]

\* AgentInstance(agent_name=..., status=IDLE): the field defaults
NewAgentInstance(name) ==
    [agent_name |-> name, status |-> "idle", started_at |-> FALSE,
     completed_at |-> FALSE, current_task |-> NoValue,
     progress_percentage |-> 0, result_data |-> NoValue, error_count |-> 0]

\* a transition table that also lets initialization skip to schedule
\* coordination
ValidTransitionsSkipping(p) ==
    CASE p = INITIALIZATION -> {PARTICIPANT_COLLECTION, SCHEDULE_COORDINATION}
      [] p = PARTICIPANT_COLLECTION -> {SCHEDULE_COORDINATION}
      [] p = SCHEDULE_COORDINATION -> {VENUE_COORDINATION, CALENDAR_INTEGRATION}
      [] p = VENUE_COORDINATION -> {CALENDAR_INTEGRATION}
      [] p = CALENDAR_INTEGRATION -> {FINAL_CONFIRMATION}
      [] p = FINAL_CONFIRMATION -> {ANNOUNCEMENT}
      [] p = ANNOUNCEMENT -> {COMPLETED}
      [] OTHER -> {}

\* valid_transitions of transition_to_phase
ValidTransitions(p) ==
    CASE p = INITIALIZATION -> {PARTICIPANT_COLLECTION}
      [] p = PARTICIPANT_COLLECTION -> {SCHEDULE_COORDINATION}
      [] p = SCHEDULE_COORDINATION -> {VENUE_COORDINATION, CALENDAR_INTEGRATION}
      [] p = VENUE_COORDINATION -> {CALENDAR_INTEGRATION}
      [] p = CALENDAR_INTEGRATION -> {FINAL_CONFIRMATION}
      [] p = FINAL_CONFIRMATION -> {ANNOUNCEMENT}
      [] p = ANNOUNCEMENT -> {COMPLETED}
      [] OTHER -> {}

\* index of the first agent of the list with this name and status, 0 if none
\* (the `for agent in self.active_agents: if name and status' loops)
FirstWithStatus(agents, name, st) ==
    LET I == {i \in 1..Len(agents) :
                 agents[i].agent_name = name /\ agents[i].status = st}
    IN IF I = {} THEN 0 ELSE Min(I)

\* index of the first agent of the list with this name, 0 if none
FirstNamed(agents, name) ==
    LET I == {i \in 1..Len(agents) : agents[i].agent_name = name}
    IN IF I = {} THEN 0 ELSE Min(I)

\* the agent_states dict comprehension of create_checkpoint: one key per
\* agent name, a later agent of the same name overwrites an earlier one
AgentStates(agents) ==
    LET names == {agents[i].agent_name : i \in 1..Len(agents)}
        last(n) == Max({i \in 1..Len(agents) : agents[i].agent_name = n})
    IN [n \in names |->
          [status |-> agents[last(n)].status,
           progress |-> agents[last(n)].progress_percentage,
           current_task |-> agents[last(n)].current_task]]

\* create_checkpoint: workflow_data is never written by the engine, so the
\* data snapshot is always empty and is left out
create_checkpoint(s) ==
    [s EXCEPT !.checkpoints =
        Append(@, [phase |-> s.current_phase,
                   agent_states |-> AgentStates(s.active_agents)])]

\* CoordinationSession.transition_to_phase: <<accepted, session after>>
transition_to_phase(s, new_phase) ==
    IF new_phase \in ValidTransitions(s.current_phase)
    THEN <<TRUE, create_checkpoint([s EXCEPT !.previous_phase = s.current_phase,
                                            !.current_phase = new_phase])>>
    ELSE <<FALSE, s>>

\* CoordinationSession.start_agent: <<started, session after>>
start_agent(s, name, task) ==
    LET i == FirstWithStatus(s.active_agents, name, "idle")
    IN IF i = 0 THEN <<FALSE, s>>
       ELSE <<TRUE,
              [s EXCEPT !.active_agents[i].status = "active",
                        !.active_agents[i].started_at = TRUE,
                        !.active_agents[i].current_task =
                            IF task # NoValue THEN task ELSE @]>>

\* a complete_agent that completes the first agent of the name whatever its
\* status
complete_agent_any_status(s, name, result_data) ==
    LET i == FirstNamed(s.active_agents, name)
    IN IF i = 0 THEN <<FALSE, s>>
       ELSE <<TRUE,
              [s EXCEPT !.active_agents[i].status = "completed",
                        !.active_agents[i].completed_at = TRUE,
                        !.active_agents[i].progress_percentage = 100,
                        !.active_agents[i].result_data =
                            IF result_data # NoValue THEN result_data ELSE @,
                        !.completed_agents = Append(@, name)]>>

\* CoordinationSession.complete_agent: <<completed, session after>>
complete_agent(s, name, result_data) ==
    LET i == FirstWithStatus(s.active_agents, name, "active")
    IN IF i = 0 THEN <<FALSE, s>>
       ELSE <<TRUE,
              [s EXCEPT !.active_agents[i].status = "completed",
                        !.active_agents[i].completed_at = TRUE,
                        !.active_agents[i].progress_percentage = 100,
                        !.active_agents[i].result_data =
                            IF result_data # NoValue THEN result_data ELSE @,
                        !.completed_agents = Append(@, name)]>>

\* CoordinationSession.log_error
log_error(s, name, error_type, error_message) ==
    [s EXCEPT !.error_log =
        Append(@, [agent_name |-> name, error_type |-> error_type,
                   error_message |-> error_message, resolved |-> FALSE])]

\* a fail_agent that leaves the error count of the agent as it was
fail_agent_uncounted(s, name, error_message) ==
    LET i == FirstNamed(s.active_agents, name)
    IN IF i = 0 THEN <<FALSE, s>>
       ELSE <<TRUE,
              log_error([s EXCEPT !.active_agents[i].status = "error"],
                        name, "AgentError", error_message)>>

\* CoordinationSession.fail_agent: <<failed, session after>>
fail_agent(s, name, error_message) ==
    LET i == FirstNamed(s.active_agents, name)
    IN IF i = 0 THEN <<FALSE, s>>
       ELSE <<TRUE,
              log_error([s EXCEPT !.active_agents[i].status = "error",
                                  !.active_agents[i].error_count = @ + 1],
                        name, "AgentError", error_message)>>

\* CoordinationSession.pause_session
pause_session(s, reason) ==
    [s EXCEPT !.is_paused = TRUE, !.pause_reason = reason]

\* CoordinationSession.resume_session
resume_session(s) ==
    [s EXCEPT !.is_paused = FALSE, !.pause_reason = NoValue]

(***************************************************************************)
(* CoordinationAgent (agents/coordination_agent.py).  The engine methods  *)
(* are operators from the session s and the registry m (managed_agents:   *)
(* agent name -> position of the tracked AgentInstance in                  *)
(* s.active_agents, 0 when the name is not tracked; the tracked object is  *)
(* the very object appended to the session) to an outcome record           *)
(* [ok, s, sent, persisted].                                               *)
(***************************************************************************)
\* a dependency table in which scheduling depends on nothing
agent_dependencies_free_scheduling(name) ==
    CASE name = "participant_agent" -> <<>>
      [] name = "scheduling_agent" -> <<>>
      [] name = "venue_agent" -> <<"scheduling_agent">>
      [] name = "calendar_agent" -> <<"scheduling_agent", "venue_agent">>
      [] OTHER -> <<>>

\* self.agent_dependencies, each list in its declared order
agent_dependencies(name) ==
    CASE name = "participant_agent" -> <<>>
      [] name = "scheduling_agent" -> <<"participant_agent">>
      [] name = "venue_agent" -> <<"scheduling_agent">>
      [] name = "calendar_agent" -> <<"scheduling_agent", "venue_agent">>
      [] OTHER -> <<>>

\* self.phase_transitions: the successor the engine advances to, NoValue
\* when the phase is not a key of the table
phase_transitions(p) ==
    CASE p = INITIALIZATION -> PARTICIPANT_COLLECTION
      [] p = PARTICIPANT_COLLECTION -> SCHEDULE_COORDINATION
      [] p = SCHEDULE_COORDINATION -> VENUE_COORDINATION
      [] p = VENUE_COORDINATION -> CALENDAR_INTEGRATION
      [] p = CALENDAR_INTEGRATION -> FINAL_CONFIRMATION
      [] p = FINAL_CONFIRMATION -> ANNOUNCEMENT
      [] p = ANNOUNCEMENT -> COMPLETED
      [] OTHER -> NoValue

\* the agent _start_phase_agents starts for a phase, and its task label
PhaseAgent(p) ==
    CASE p = PARTICIPANT_COLLECTION -> "participant_agent"
      [] p = SCHEDULE_COORDINATION -> "scheduling_agent"
      [] p = VENUE_COORDINATION -> "venue_agent"
      [] p = CALENDAR_INTEGRATION -> "calendar_agent"
      [] OTHER -> NoValue

PhaseTask(p) ==
    CASE p = PARTICIPANT_COLLECTION -> "task_participant_collection"
      [] p = SCHEDULE_COORDINATION -> "task_schedule_coordination"
      [] p = VENUE_COORDINATION -> "task_venue_search_booking"
      [] p = CALENDAR_INTEGRATION -> "task_calendar_integration"
      [] OTHER -> NoValue

\* an AgentMessage as far as the engine fills it
Message(type, recipient, what, arg) ==
    [message_type |-> type, recipient_id |-> recipient, what |-> what, arg |-> arg]

Outcome(ok, s, msgs, writes) ==
    [ok |-> ok, s |-> s, sent |-> msgs, persisted |-> writes]

\* the dependency loop of _start_agent over deps[k..]: "ok" when every
\* dependency is tracked and completed, else what the first offending
\* dependency makes the loop do
RECURSIVE DependencyCheck(_, _, _, _)
DependencyCheck(s, m, deps, k) ==
    IF k > Len(deps) THEN "ok"
    ELSE IF deps[k] \notin DOMAIN m \/ m[deps[k]] = 0 THEN "unregistered"
    ELSE IF s.active_agents[m[deps[k]]].status # "completed" THEN "waiting"
    ELSE DependencyCheck(s, m, deps, k + 1)

\* a _start_agent that fails on an incomplete dependency without marking the
\* agent waiting
StartAgentImplUnmarked(s, m, name, task) ==
    IF name \notin DOMAIN m \/ m[name] = 0 THEN Outcome(FALSE, s, <<>>, 0)
    ELSE LET check == DependencyCheck(s, m, agent_dependencies(name), 1)
         IN IF check \in {"unregistered", "waiting"}
            THEN Outcome(FALSE, s, <<>>, 0)
            ELSE LET r == start_agent(s, name, task)
                 IN IF r[1]
                    THEN Outcome(TRUE, r[2],
                                 <<Message("command", name, "start", task)>>, 1)
                    ELSE Outcome(FALSE, s, <<>>, 0)

\* CoordinationAgent._start_agent
StartAgentImpl(s, m, name, task) ==
    IF name \notin DOMAIN m \/ m[name] = 0 THEN Outcome(FALSE, s, <<>>, 0)
    ELSE LET check == DependencyCheck(s, m, agent_dependencies(name), 1)
         IN IF check = "unregistered" THEN Outcome(FALSE, s, <<>>, 0)
            ELSE IF check = "waiting"
            THEN Outcome(FALSE,
                         [s EXCEPT !.active_agents[m[name]].status = "waiting"],
                         <<>>, 1)
            ELSE LET r == start_agent(s, name, task)
                 IN IF r[1]
                    THEN Outcome(TRUE, r[2],
                                 <<Message("command", name, "start", task)>>, 1)
                    ELSE Outcome(FALSE, s, <<>>, 0)

\* CoordinationAgent._start_phase_agents
StartPhaseAgents(s, m, phase) ==
    IF PhaseAgent(phase) # NoValue
    THEN StartAgentImpl(s, m, PhaseAgent(phase), PhaseTask(phase))
    ELSE Outcome(FALSE, s, <<>>, 0)

\* CoordinationAgent._transition_to_phase
TransitionToPhaseImpl(s, m, target_phase) ==
    LET t == transition_to_phase(s, target_phase)
    IN IF ~t[1] THEN Outcome(FALSE, s, <<>>, 0)
       ELSE LET a == StartPhaseAgents(t[2], m, target_phase)
            IN Outcome(TRUE, a.s,
                       <<Message("event", "ALL", "phase_transition", target_phase)>>
                           \o a.sent,
                       1 + a.persisted)

\* CoordinationAgent._check_phase_completion
CheckPhaseCompletion(s, m) ==
    IF phase_transitions(s.current_phase) # NoValue
    THEN TransitionToPhaseImpl(s, m, phase_transitions(s.current_phase))
    ELSE Outcome(FALSE, s, <<>>, 0)

\* the names of managed_agents in dict order: a key keeps the position of
\* its first insertion
RECURSIVE ManagedOrder(_, _)
ManagedOrder(agents, k) ==
    IF k > Len(agents) THEN <<>>
    ELSE IF FirstNamed(agents, agents[k].agent_name) = k
         THEN <<agents[k].agent_name>> \o ManagedOrder(agents, k + 1)
         ELSE ManagedOrder(agents, k + 1)

\* BaseAgent.send_heartbeat
Heartbeat(st) == Message("heartbeat", "ALL", "heartbeat", st)

(***************************************************************************)
(* Error classification of _execute_error_recovery.  A type name is a     *)
(* sequence of characters; lower() and the substring test are computed.   *)
(***************************************************************************)
Upper == <<"A","B","C","D","E","F","G","H","I","J","K","L","M",
           "N","O","P","Q","R","S","T","U","V","W","X","Y","Z">>
Lowercase == <<"a","b","c","d","e","f","g","h","i","j","k","l","m",
               "n","o","p","q","r","s","t","u","v","w","x","y","z">>

\* str.lower() on one character
LowerChar(c) ==
    IF \E i \in 1..Len(Upper) : Upper[i] = c
    THEN Lowercase[CHOOSE i \in 1..Len(Upper) : Upper[i] = c]
    ELSE c

\* str.lower()
Lower(str) == [i \in 1..Len(str) |-> LowerChar(str[i])]

\* the `pattern in text' substring test
Contains(text, pattern) ==
    \E i \in 1..(Len(text) - Len(pattern) + 1) :
        SubSeq(text, i, i + Len(pattern) - 1) = pattern

TimeoutWord == <<"t","i","m","e","o","u","t">>
ConnectionWord == <<"c","o","n","n","e","c","t","i","o","n">>

\* CoordinationAgent._execute_error_recovery: the branch taken
ExecuteErrorRecovery(error_type) ==
    IF Contains(Lower(error_type), TimeoutWord) THEN "retry"
    ELSE IF Contains(Lower(error_type), ConnectionWord) THEN "reconnect"
    ELSE "manual_intervention"

\* type(error).__name__ of the exceptions handed to the error callback
ErrorTypeNames ==
    {<<"T","i","m","e","o","u","t","E","r","r","o","r">>,
     <<"R","e","a","d","T","i","m","e","o","u","t">>,
     <<"C","o","n","n","e","c","t","i","o","n","E","r","r","o","r">>,
     <<"C","o","n","n","e","c","t","i","o","n","T","i","m","e","o","u","t">>,
     <<"V","a","l","u","e","E","r","r","o","r">>,
     <<"T","i","m","e","O","u","t">>}

\* the type name fail_agent logs for every agent failure
AgentErrorName == <<"A","g","e","n","t","E","r","r","o","r">>

(***************************************************************************)
(* State and operations.                                                   *)
(***************************************************************************)
Op(op, name, arg) == [op |-> op]

\* the engine is sent messages once initialize() has registered its
\* handlers and until its host stops it
HandlersRegistered == status \in {"idle", "active"}

\* the orders in which the agents of a session register: the workflow
\* order and its reverse (each continues periodically), and the participant
\* agent registering repeatedly
WorkflowOrder == <<"participant_agent", "scheduling_agent", "venue_agent", "calendar_agent">>
ReverseOrder == <<"calendar_agent", "venue_agent", "scheduling_agent", "participant_agent">>
RegistrationOrders ==
    {[i \in 1..MaxAgents |-> WorkflowOrder[((i - 1) % 4) + 1]],
     [i \in 1..MaxAgents |-> ReverseOrder[((i - 1) % 4) + 1]],
     [i \in 1..MaxRepeats |-> "participant_agent"]}

AgentNamesOf(agents) == [i \in 1..Len(agents) |-> agents[i].agent_name]

\* the state after CoordinationAgent.__init__
EngineConstructed ==
    /\ status = "initializing"
    /\ coordination_session = NoSession
    /\ managed_agents = [n \in AgentNames |-> 0]
    /\ sent = <<>>
    /\ persisted = 0
    /\ response = NoValue
    /\ recovery = <<>>
    /\ lastOp = Op("construct", NoValue, NoValue)

\* the variables of the parts a specification does not run
OthersIdle ==
    /\ agent = NoValue
    /\ call = NoValue
    /\ store = NoValue
    /\ writers = NoValue
    /\ instances = NoValue
    /\ scheduler = NoValue
    /\ venue = NoValue

Init == EngineConstructed /\ OthersIdle

\* the sessions the model explores
WithinBounds(s) ==
    /\ Len(s.active_agents) <= MaxAgents
    /\ Len(s.error_log) <= MaxErrors
    /\ Cardinality({i \in 1..Len(s.active_agents) :
                       s.active_agents[i].status = "waiting"}) <= MaxWaiting
    /\ Len(s.checkpoints) - Len(s.completed_agents) <= MaxExternalTransitions

\* what an operation leaves in the engine: the session, what it sent, how
\* often it wrote the session
Apply(o) ==
    /\ WithinBounds(o.s)
    /\ coordination_session' = o.s
    /\ sent' = o.sent
    /\ persisted' = o.persisted

\* BaseAgent.initialize with CoordinationAgent._initialize_impl: no session
\* of this id is stored, a new one is created and written
Initialize ==
    /\ status = "initializing"
    /\ coordination_session' = NewSession
    /\ status' = "idle"
    /\ sent' = <<>>
    /\ persisted' = 1
    /\ response' = NoValue
    /\ recovery' = <<>>
    /\ lastOp' = Op("initialize", NoValue, NoValue)
    /\ UNCHANGED otherVars
    /\ UNCHANGED managed_agents

\* BaseAgent.start with CoordinationAgent._start_impl; raises RuntimeError
\* and changes nothing unless the engine is idle
Start ==
    /\ lastOp' = Op("start", NoValue, NoValue)
    /\ UNCHANGED otherVars
    /\ recovery' = <<>>
    /\ UNCHANGED managed_agents
    /\ IF status # "idle"
       THEN /\ response' = "raised"
            /\ sent' = <<>>
            /\ persisted' = 0
            /\ UNCHANGED <<status, coordination_session>>
       ELSE \E o \in {IF coordination_session.current_phase = INITIALIZATION
                      THEN TransitionToPhaseImpl(coordination_session,
                                                 managed_agents,
                                                 PARTICIPANT_COLLECTION)
                      ELSE Outcome(FALSE, coordination_session, <<>>, 0)} :
               /\ status' = "active"
               /\ Apply([o EXCEPT !.sent = @ \o <<Heartbeat("active")>>])
               /\ response' = NoValue

\* BaseAgent.stop with CoordinationAgent._stop_impl
Stop ==
    /\ lastOp' = Op("stop", NoValue, NoValue)
    /\ UNCHANGED otherVars
    /\ recovery' = <<>>
    /\ response' = NoValue
    /\ status' = "completed"
    /\ UNCHANGED managed_agents
    /\ LET order == ManagedOrder(coordination_session.active_agents, 1)
       IN sent' = [i \in 1..Len(order) |->
                      Message("command", order[i], "stop", NoValue)]
    /\ IF status = "initializing"
       THEN /\ persisted' = 0
            /\ UNCHANGED coordination_session
       ELSE /\ persisted' = 1
            /\ coordination_session' =
                   [coordination_session EXCEPT !.current_phase = COMPLETED]

\* COMMAND register_agent: _handle_agent_registration
RegisterAgent(name) ==
    /\ HandlersRegistered
    /\ \E order \in RegistrationOrders :
           /\ Len(coordination_session.active_agents) < Len(order)
           /\ SubSeq(order, 1, Len(coordination_session.active_agents) + 1) =
                  Append(AgentNamesOf(coordination_session.active_agents), name)
    /\ Apply(Outcome(TRUE,
                     [coordination_session EXCEPT
                         !.active_agents = Append(@, NewAgentInstance(name))],
                     <<>>, 1))
    /\ managed_agents' =
           [managed_agents EXCEPT
               ![name] = Len(coordination_session.active_agents) + 1]
    /\ response' = "registered"
    /\ recovery' = <<>>
    /\ lastOp' = Op("register_agent", name, NoValue)
    /\ UNCHANGED otherVars
    /\ UNCHANGED status

\* COMMAND start_agent: _handle_start_agent_command
StartAgent(name, task) ==
    /\ HandlersRegistered
    /\ \E o \in {StartAgentImpl(coordination_session, managed_agents, name, task)} :
          /\ Apply(o)
          /\ response' = IF o.ok THEN "success" ELSE "failed"
    /\ recovery' = <<>>
    /\ lastOp' = Op("start_agent", name, task)
    /\ UNCHANGED otherVars
    /\ UNCHANGED <<status, managed_agents>>

\* COMMAND transition_phase: _handle_phase_transition_command
TransitionPhase(target_phase) ==
    /\ HandlersRegistered
    /\ IF target_phase \notin CoordinationPhase
       THEN /\ response' = "error"
            /\ sent' = <<>>
            /\ persisted' = 0
            /\ UNCHANGED coordination_session
       ELSE \E o \in {TransitionToPhaseImpl(coordination_session, managed_agents,
                                            target_phase)} :
               /\ Apply(o)
               /\ response' = IF o.ok THEN "success" ELSE "failed"
    /\ recovery' = <<>>
    /\ lastOp' = Op("transition_phase", NoValue, target_phase)
    /\ UNCHANGED otherVars
    /\ UNCHANGED <<status, managed_agents>>

\* EVENT agent_completed: _handle_agent_completion
AgentCompleted(name, result) ==
    /\ HandlersRegistered
    /\ \E c \in {complete_agent(coordination_session, name, result)} :
          IF name # NoValue /\ c[1]
          THEN \E o \in {CheckPhaseCompletion(c[2], managed_agents)} :
                  Apply([o EXCEPT !.persisted = @ + 1])
          ELSE Apply(Outcome(FALSE, coordination_session, <<>>, 0))
    /\ response' = NoValue
    /\ recovery' = <<>>
    /\ lastOp' = Op("agent_completed", name, result)
    /\ UNCHANGED otherVars
    /\ UNCHANGED <<status, managed_agents>>

\* EVENT agent_failed: _handle_agent_failure
AgentFailed(name, error_message) ==
    /\ HandlersRegistered
    /\ LET msg == IF error_message = NoValue THEN DefaultErrorMessage
                  ELSE error_message
           f == fail_agent(coordination_session, name, msg)
       IN IF name # NoValue /\ f[1]
          THEN Apply(Outcome(TRUE, f[2], <<>>, 1))
          ELSE Apply(Outcome(FALSE, coordination_session, <<>>, 0))
    /\ response' = NoValue
    /\ recovery' = <<>>
    /\ lastOp' = Op("agent_failed", name, error_message)
    /\ UNCHANGED otherVars
    /\ UNCHANGED <<status, managed_agents>>

\* the registered error callback _handle_coordination_error, called by
\* BaseAgent._handle_error with an exception of the given type
HandleCoordinationError(error_type) ==
    /\ HandlersRegistered
    /\ recovery' = <<ExecuteErrorRecovery(error_type)>>
    /\ sent' = <<>>
    /\ persisted' = 0
    /\ response' = NoValue
    /\ lastOp' = Op("coordination_error", NoValue, error_type)
    /\ UNCHANGED otherVars
    /\ UNCHANGED <<status, coordination_session, managed_agents>>

\* the reasons given to pause_session
PauseReasons == {"reason_1"}

\* pause_session called on the engine's session
PauseSession(reason) ==
    /\ status # "initializing"
    /\ coordination_session' = pause_session(coordination_session, reason)
    /\ sent' = <<>>
    /\ persisted' = 0
    /\ response' = NoValue
    /\ recovery' = <<>>
    /\ lastOp' = Op("pause_session", NoValue, reason)
    /\ UNCHANGED <<status, managed_agents>>
    /\ UNCHANGED otherVars

\* resume_session called on the engine's session
ResumeSession ==
    /\ status # "initializing"
    /\ coordination_session' = resume_session(coordination_session)
    /\ sent' = <<>>
    /\ persisted' = 0
    /\ response' = NoValue
    /\ recovery' = <<>>
    /\ lastOp' = Op("resume_session", NoValue, NoValue)
    /\ UNCHANGED <<status, managed_agents>>
    /\ UNCHANGED otherVars

\* the workflow of a session: lifecycle, registrations, commands and
\* completion events
Next ==
    \/ Initialize
    \/ Start
    \/ \E name \in AgentNames : RegisterAgent(name)
    \/ \E name \in AgentNames \cup {NoValue}, task \in TaskInputs :
           StartAgent(name, task)
    \/ \E target_phase \in PhaseInputs : TransitionPhase(target_phase)
    \/ \E name \in AgentNames \cup {NoValue} : \E result \in ResultInputs(name) :
           AgentCompleted(name, result)

Spec == Init /\ [][Next]_vars

\* the failure handling of a session: lifecycle with stop, registrations,
\* completion and failure events, and exceptions handed to the error callback
NextRecovery ==
    \/ Initialize
    \/ Start
    \/ Stop
    \/ \E name \in AgentNames : RegisterAgent(name)
    \/ \E name \in AgentNames \cup {NoValue} : \E result \in ResultInputs(name) :
           AgentCompleted(name, result)
    \/ \E name \in AgentNames \cup {NoValue} :
           \E error_message \in ErrorMessageInputs(name) :
               AgentFailed(name, error_message)
    \/ \E error_type \in ErrorTypeNames : HandleCoordinationError(error_type)

SpecRecovery == Init /\ [][NextRecovery]_vars

\* an agent_completed event reported by an agent that is at work
ReportsCompletion(name) ==
    /\ \E i \in 1..Len(coordination_session.active_agents) :
          /\ coordination_session.active_agents[i].agent_name = name
          /\ coordination_session.active_agents[i].status = "active"
    /\ \E result \in ResultInputs(name) : AgentCompleted(name, result)

\* the unattended workflow: lifecycle, registrations and completion events,
\* no command from outside
NextLive ==
    \/ Initialize
    \/ Start
    \/ \E name \in AgentNames : RegisterAgent(name)
    \/ \E name \in AgentNames : \E result \in ResultInputs(name) :
           AgentCompleted(name, result)

\* the engine is started once initialised, and every agent at work
\* eventually reports its completion
SpecLive ==
    /\ Init
    /\ [][NextLive]_vars
    /\ WF_vars(Start)
    /\ \A name \in AgentNames : WF_vars(ReportsCompletion(name))

\* a session that is paused and resumed while commands arrive
NextPause ==
    \/ Initialize
    \/ Start
    \/ \E name \in AgentNames : RegisterAgent(name)
    \/ \E name \in AgentNames \cup {NoValue}, task \in TaskInputs :
           StartAgent(name, task)
    \/ \E target_phase \in PhaseInputs : TransitionPhase(target_phase)
    \/ \E reason \in PauseReasons : PauseSession(reason)
    \/ ResumeSession

SpecPause == Init /\ [][NextPause]_vars

(***************************************************************************)
(* Properties.                                                             *)
(***************************************************************************)
Session == coordination_session
Agents == coordination_session.active_agents
Checkpoints == coordination_session.checkpoints

\* the legal transition table as the specification states it
LegalTargets(p) ==
    IF p = INITIALIZATION THEN {PARTICIPANT_COLLECTION}
    ELSE IF p = PARTICIPANT_COLLECTION THEN {SCHEDULE_COORDINATION}
    ELSE IF p = SCHEDULE_COORDINATION THEN {VENUE_COORDINATION, CALENDAR_INTEGRATION}
    ELSE IF p = VENUE_COORDINATION THEN {CALENDAR_INTEGRATION}
    ELSE IF p = CALENDAR_INTEGRATION THEN {FINAL_CONFIRMATION}
    ELSE IF p = FINAL_CONFIRMATION THEN {ANNOUNCEMENT}
    ELSE IF p = ANNOUNCEMENT THEN {COMPLETED}
    ELSE {}

\* the dependencies of an agent as the specification states them
DeclaredDependencies(name) ==
    IF name = "scheduling_agent" THEN {"participant_agent"}
    ELSE IF name = "venue_agent" THEN {"scheduling_agent"}
    ELSE IF name = "calendar_agent" THEN {"scheduling_agent", "venue_agent"}
    ELSE {}

\* the engine tracks an agent of this name
Registered(name) == name \in AgentNames /\ managed_agents[name] # 0

\* C1: a transition_phase command whose target is not in the legal set of
\* the current phase is answered "failed" and leaves current_phase,
\* previous_phase and the checkpoint list as they were.
C1_IllegalTransitionRejected ==
    [][\A target \in CoordinationPhase :
          (/\ lastOp'.op = "transition_phase"
           /\ target \notin LegalTargets(Session.current_phase)
           /\ TransitionPhase(target))
          => /\ response' = "failed"
             /\ Session'.current_phase = Session.current_phase
             /\ Session'.previous_phase = Session.previous_phase
             /\ Session'.checkpoints = Session.checkpoints]_vars

\* C1 witness: a transition was asked for in phase Announcement and rejected
\* (Scenario D)
C1_Witness ==
    /\ lastOp.op = "transition_phase"
    /\ response = "failed"
    /\ Session.current_phase = ANNOUNCEMENT
    /\ Session.previous_phase = FINAL_CONFIRMATION

\* the snapshot holds status, progress and task of every agent of the list
SnapshotHoldsEvery(checkpoint, agents) ==
    \A i \in 1..Len(agents) :
        /\ agents[i].agent_name \in DOMAIN checkpoint.agent_states
        /\ checkpoint.agent_states[agents[i].agent_name] =
               [status |-> agents[i].status,
                progress |-> agents[i].progress_percentage,
                current_task |-> agents[i].current_task]

\* the checkpoint list stays or grows by one entry at its end
CheckpointsAppendOnly ==
    /\ Len(Checkpoints') \in {Len(Checkpoints), Len(Checkpoints) + 1}
    /\ SubSeq(Checkpoints', 1, Len(Checkpoints)) = Checkpoints

\* the step appended a checkpoint of the new phase that holds every agent of
\* the list
AppendedCheckpointOf(agents) ==
    /\ Len(Checkpoints') = Len(Checkpoints) + 1
    /\ Checkpoints'[Len(Checkpoints')].phase = Session'.current_phase
    /\ SnapshotHoldsEvery(Checkpoints'[Len(Checkpoints')], agents)

\* C2: every accepted transition appends exactly one checkpoint of the
\* target phase whose snapshot holds status, progress and task of every
\* session agent at that moment, and no step removes or rewrites a checkpoint.
C2_CheckpointPerTransition ==
    [][/\ CheckpointsAppendOnly
       /\ (lastOp'.op \in {"start", "transition_phase"}
             /\ Session'.previous_phase # Session.previous_phase)
          => AppendedCheckpointOf(Agents)
       /\ \A name \in AgentNames : \A result \in ResultInputs(name) :
             (/\ lastOp'.op = "agent_completed"
              /\ Session'.current_phase # Session.current_phase
              /\ AgentCompleted(name, result))
             => AppendedCheckpointOf(
                    complete_agent(Session, name, result)[2].active_agents)]_vars

\* C3: every change of current_phase goes along an edge of the legal
\* transition table.
C3_PhaseMovesAlongLegalEdges ==
    [][(Session.current_phase \in CoordinationPhase
          /\ Session'.current_phase # Session.current_phase)
       => Session'.current_phase \in LegalTargets(Session.current_phase)]_vars

\* the dependencies of an agent in the order the specification lists them
DeclaredDependencyOrder(name) ==
    IF name = "scheduling_agent" THEN <<"participant_agent">>
    ELSE IF name = "venue_agent" THEN <<"scheduling_agent">>
    ELSE IF name = "calendar_agent" THEN <<"scheduling_agent", "venue_agent">>
    ELSE <<>>

\* the AgentInstance the engine tracks under a registered name
Tracked(name) == Agents[managed_agents[name]]

\* a registered dependency of the agent is not completed
HasIncompleteRegisteredDependency(name) ==
    \E d \in DeclaredDependencies(name) :
        Registered(d) /\ Tracked(d).status # "completed"

\* the first dependency, in declared order, that is unregistered or not
\* completed is a registered one
FirstOffenderIsRegistered(name) ==
    LET deps == DeclaredDependencyOrder(name)
    IN \E k \in 1..Len(deps) :
          /\ \A j \in 1..(k - 1) :
                Registered(deps[j]) /\ Tracked(deps[j]).status = "completed"
          /\ Registered(deps[k])
          /\ Tracked(deps[k]).status # "completed"

\* every dependency of the agent is registered and completed
AllDependenciesCompleted(name) ==
    \A d \in DeclaredDependencies(name) :
        Registered(d) /\ Tracked(d).status = "completed"

\* what a start that fails on an incomplete dependency leaves: failure, the
\* agent waiting, the session written, nothing sent, the dependencies as
\* they were
StartLeavesWaiting(name) ==
    /\ response' = "failed"
    /\ Tracked(name)'.status = "waiting"
    /\ persisted' >= 1
    /\ sent' = <<>>
    /\ \A d \in DeclaredDependencies(name) :
          Registered(d) =>
              /\ managed_agents'[d] = managed_agents[d]
              /\ Tracked(d)' = Tracked(d)

\* C4 as claimed: start(X) of a registered agent with some registered
\* dependency that is not completed fails, leaves X waiting, writes the
\* session, sends no start command and leaves the dependency unchanged.
C4_StartFailsOnAnyIncompleteDependency ==
    [][\A name \in AgentNames : \A task \in TaskInputs :
          (/\ lastOp'.op = "start_agent"
           /\ Registered(name)
           /\ HasIncompleteRegisteredDependency(name)
           /\ StartAgent(name, task))
          => StartLeavesWaiting(name)]_vars

\* C4 as amended: the same, when the first dependency in declared order that
\* is unregistered or not completed is a registered one.
C4_StartFailsOnFirstIncompleteDependency ==
    [][\A name \in AgentNames : \A task \in TaskInputs :
          (/\ lastOp'.op = "start_agent"
           /\ Registered(name)
           /\ FirstOffenderIsRegistered(name)
           /\ StartAgent(name, task))
          => StartLeavesWaiting(name)]_vars

\* C4 witness: venue was started while scheduling is active (Scenario B)
C4_Witness ==
    /\ lastOp.op = "start_agent"
    /\ response = "failed"
    /\ persisted = 1
    /\ sent = <<>>
    /\ Registered("venue_agent") /\ Registered("scheduling_agent")
    /\ Tracked("venue_agent").status = "waiting"
    /\ Tracked("scheduling_agent").status = "active"

\* the session holds one agent of this name
RegisteredOnce(name) ==
    /\ Registered(name)
    /\ Cardinality({i \in 1..Len(Agents) : Agents[i].agent_name = name}) = 1

\* C5: start(X) of an agent (registered once) that is idle or waiting and
\* whose dependencies are all registered and completed succeeds: X is active
\* with its start time stamped, the session is written and exactly one start
\* command is sent to X.
C5_StartSucceedsWhenDependenciesCompleted ==
    [][\A name \in AgentNames : \A task \in TaskInputs :
          (/\ lastOp'.op = "start_agent"
           /\ RegisteredOnce(name)
           /\ Tracked(name).status \in {"idle", "waiting"}
           /\ AllDependenciesCompleted(name)
           /\ StartAgent(name, task))
          => /\ response' = "success"
             /\ Tracked(name)'.status = "active"
             /\ Tracked(name)'.started_at
             /\ persisted' >= 1
             /\ sent' = <<Message("command", name, "start", task)>>]_vars

\* C6: an agent becomes active only in a step after which each of its
\* dependencies is registered and completed.
C6_ActiveOnlyAfterDependencies ==
    [][\A i \in 1..Len(Agents') :
          (/\ Agents'[i].status = "active"
           /\ (i > Len(Agents) \/ Agents[i].status # "active"))
          => \A d \in DeclaredDependencies(Agents'[i].agent_name) :
                /\ managed_agents'[d] # 0
                /\ Agents'[managed_agents'[d]].status = "completed"]_vars

\* C6 witness: the calendar agent is active, scheduling and venue completed
C6_Witness ==
    /\ Registered("calendar_agent")
    /\ Tracked("calendar_agent").status = "active"
    /\ Registered("scheduling_agent")
    /\ Tracked("scheduling_agent").status = "completed"
    /\ Registered("venue_agent")
    /\ Tracked("venue_agent").status = "completed"

\* the phase that follows a phase in the coordination sequence
SuccessorPhase(p) ==
    IF p = INITIALIZATION THEN PARTICIPANT_COLLECTION
    ELSE IF p = PARTICIPANT_COLLECTION THEN SCHEDULE_COORDINATION
    ELSE IF p = SCHEDULE_COORDINATION THEN VENUE_COORDINATION
    ELSE IF p = VENUE_COORDINATION THEN CALENDAR_INTEGRATION
    ELSE IF p = CALENDAR_INTEGRATION THEN FINAL_CONFIRMATION
    ELSE IF p = FINAL_CONFIRMATION THEN ANNOUNCEMENT
    ELSE IF p = ANNOUNCEMENT THEN COMPLETED
    ELSE NoValue

\* the workflow agent that works in a phase
WorkerOf(p) ==
    IF p = PARTICIPANT_COLLECTION THEN "participant_agent"
    ELSE IF p = SCHEDULE_COORDINATION THEN "scheduling_agent"
    ELSE IF p = VENUE_COORDINATION THEN "venue_agent"
    ELSE IF p = CALENDAR_INTEGRATION THEN "calendar_agent"
    ELSE NoValue

\* the positions of the active instances of a name
ActiveNamed(name) ==
    {i \in 1..Len(Agents) :
        Agents[i].agent_name = name /\ Agents[i].status = "active"}

\* the start commands among the messages of the last operation
StartCommandsTo(msgs, name) ==
    {k \in 1..Len(msgs) :
        /\ msgs[k].message_type = "command"
        /\ msgs[k].recipient_id = name
        /\ msgs[k].what = "start"}

\* the completion is recorded: the agent completed with progress 100 and the
\* reported result, its name in completed_agents, the session written
CompletionRecorded(name, result) ==
    LET i == Min(ActiveNamed(name))
    IN /\ Agents'[i].status = "completed"
       /\ Agents'[i].progress_percentage = 100
       /\ Agents'[i].completed_at
       /\ Agents'[i].result_data =
              (IF result = NoValue THEN Agents[i].result_data ELSE result)
       /\ Session'.completed_agents = Append(Session.completed_agents, name)
       /\ persisted' >= 1

\* the phase moved to its successor through one accepted transition
AdvancedToSuccessor ==
    /\ Session'.current_phase = SuccessorPhase(Session.current_phase)
    /\ Session'.previous_phase = Session.current_phase
    /\ Len(Checkpoints') = Len(Checkpoints) + 1
    /\ Checkpoints'[Len(Checkpoints')].phase = Session'.current_phase

\* the worker of the new phase can be started: registered once, idle or
\* waiting, its dependencies registered and completed after the completion
SuccessorStartable(worker) ==
    /\ worker # NoValue
    /\ RegisteredOnce(worker)
    /\ Tracked(worker).status \in {"idle", "waiting"}
    /\ \A d \in DeclaredDependencies(worker) :
          /\ Registered(d)
          /\ Agents'[managed_agents[d]].status = "completed"

\* C7: an agent_completed event naming an active agent records the
\* completion, moves the phase to its successor and starts the worker of the
\* new phase.
C7_CompletionAdvancesAndStartsSuccessor ==
    [][\A name \in AgentNames : \A result \in ResultInputs(name) :
          (/\ lastOp'.op = "agent_completed"
           /\ ActiveNamed(name) # {}
           /\ AgentCompleted(name, result))
          => /\ CompletionRecorded(name, result)
             /\ Session.current_phase # COMPLETED => AdvancedToSuccessor
             /\ LET worker == WorkerOf(Session'.current_phase)
                IN (Session.current_phase # COMPLETED
                      /\ SuccessorStartable(worker))
                   => /\ Agents'[managed_agents[worker]].status = "active"
                      /\ Cardinality(StartCommandsTo(sent', worker)) = 1]_vars

\* the positions of the instances of a name
Named(name) == {i \in 1..Len(Agents) : Agents[i].agent_name = name}

C10_FailureHandedToRecovery ==
    [][\A name \in AgentNames : \A error_message \in ErrorMessageInputs(name) :
          (/\ lastOp'.op = "agent_failed"
           /\ Registered(name)
           /\ AgentFailed(name, error_message))
          => /\ Len(recovery') = 1
             /\ recovery'[1] \in {"retry", "reconnect", "manual_intervention"}]_vars

\* the engine has just been started with the four workflow agents registered
StartedWithAllRegistered ==
    /\ lastOp.op = "start"
    /\ response # "raised"
    /\ status = "active"
    /\ \A name \in AgentNames : RegisteredOnce(name)

\* C8: once the engine is started with the four workflow agents registered,
\* and every started agent eventually reports its completion, the session
\* eventually reaches the phase completed.
C8_WorkflowReachesCompleted ==
    StartedWithAllRegistered ~> (Session.current_phase = COMPLETED)

\* C11: a timeout-classified error makes the engine retry the failed step:
\* the recovery of such an error sends a command or changes the session.
C11_TimeoutErrorRetried ==
    [][\A error_type \in ErrorTypeNames :
          (/\ lastOp'.op = "coordination_error"
           /\ Contains(Lower(error_type), TimeoutWord)
           /\ HandleCoordinationError(error_type))
          => \/ sent' # <<>>
             \/ coordination_session' # coordination_session
             \/ persisted' >= 1]_vars

\* the status of every agent of a session, in session order
StatusesOf(s) == [i \in 1..Len(s.active_agents) |-> s.active_agents[i].status]

\* C12: while the session is paused, a transition request and a start request
\* fail and leave the phase, the checkpoints and the agent statuses unchanged.
C12_PausedSessionBlocks ==
    [][(/\ Session.is_paused
        /\ lastOp'.op \in {"transition_phase", "start_agent"})
       => /\ response' \in {"failed", "error"}
          /\ Session'.current_phase = Session.current_phase
          /\ Checkpoints' = Checkpoints
          /\ StatusesOf(Session') = StatusesOf(Session)]_vars

(***************************************************************************)
(* BaseAgent (agents/base_agent.py): one agent of the message substrate.   *)
(* An agent is a record of its attributes; the bus it publishes on is      *)
(* kept with it as the list of published messages.  A handler is known by  *)
(* its name and by what it does when invoked: return a response, return    *)
(* nothing, or raise.  Times are small integers; processing-time metrics   *)
(* are left out.  A bus accepts every message published on it.             *)
(***************************************************************************)
\* the longest pending queue and bus log, the largest receive counter and
\* the longest list of error callbacks the model explores
MaxMessages == 2
MaxReceived == 2
MaxErrorHandlers == 2
\* the largest send counter
MaxSent == 3

\* expires_at of a message that never expires (None); times start at 1
NoExpiry == 0

\* MessageType values the model uses; no handler is ever registered for
\* "query"
MessageKinds == {"command", "heartbeat", "query"}
RegisteredKinds == {"command", "heartbeat"}

\* handlers a caller registers, and the base handler initialize() registers
Handlers == {"handler_a", "handler_raise"}
BaseHeartbeatHandler == "_handle_heartbeat"

\* error callbacks a caller registers
ErrorCallbacks == {"callback_ok", "callback_raise"}

\* what a handler does with a message: the response it returns, or "raise"
HandlerResult(handler) ==
    IF handler = "handler_a" THEN "response_a"
    ELSE IF handler = "handler_raise" THEN "raise"
    ELSE NoValue

\* BaseAgent.__init__
NewAgent(agent_id, event_id, session_id) ==
    [agent_id |-> agent_id, event_id |-> event_id, session_id |-> session_id,
     status |-> "initializing",
     message_handlers |-> [k \in MessageKinds |-> NoValue],
     error_handlers |-> <<>>,
     pending_messages |-> <<>>,
     message_bus |-> NoValue,
     published |-> <<>>,
     metrics |-> [messages_sent |-> 0, messages_received |-> 0,
                  errors_count |-> 0]]

\* AgentMessage: the fields the substrate reads or writes
AgentMessage(message_type, sender_id, event_id, session_id, expires_at, subject) ==
    [message_type |-> message_type, sender_id |-> sender_id,
     event_id |-> event_id, session_id |-> session_id,
     expires_at |-> expires_at, subject |-> subject]

\* an expiry test that lets a message live one time unit longer
is_expired_late(m, now) == m.expires_at # NoExpiry /\ now > m.expires_at + 1

\* AgentMessage.is_expired at the time now
is_expired(m, now) == m.expires_at # NoExpiry /\ now > m.expires_at

\* a registration that keeps the handler a kind already has
register_handler_first(a, message_type, handler) ==
    IF a.message_handlers[message_type] # NoValue THEN a
    ELSE [a EXCEPT !.message_handlers[message_type] = handler]

\* BaseAgent.register_handler
register_handler(a, message_type, handler) ==
    [a EXCEPT !.message_handlers[message_type] = handler]

\* BaseAgent.register_error_handler
register_error_handler(a, handler) ==
    [a EXCEPT !.error_handlers = Append(@, handler)]

\* a send_message that replaces the event id of every message by the agent's
send_message_restamping(a, m) ==
    LET stamped ==
            [m EXCEPT !.sender_id = a.agent_id,
                      !.event_id = a.event_id,
                      !.session_id = IF @ = NoValue /\ a.session_id # NoValue
                                     THEN a.session_id ELSE @]
        delivered ==
            IF a.message_bus # NoValue
            THEN [a EXCEPT !.published = Append(@, stamped)]
            ELSE [a EXCEPT !.pending_messages = Append(@, stamped)]
    IN [delivered EXCEPT !.metrics.messages_sent = @ + 1]

\* BaseAgent.send_message
send_message(a, m) ==
    LET stamped ==
            [m EXCEPT !.sender_id = a.agent_id,
                      !.event_id = IF @ = NoValue /\ a.event_id # NoValue
                                   THEN a.event_id ELSE @,
                      !.session_id = IF @ = NoValue /\ a.session_id # NoValue
                                     THEN a.session_id ELSE @]
        delivered ==
            IF a.message_bus # NoValue
            THEN [a EXCEPT !.published = Append(@, stamped)]
            ELSE [a EXCEPT !.pending_messages = Append(@, stamped)]
    IN [delivered EXCEPT !.metrics.messages_sent = @ + 1]

\* BaseAgent.report_error
report_error(a, error) ==
    LET reported == send_message(a, AgentMessage("error_report", a.agent_id,
                                                 NoValue, NoValue, NoExpiry, error))
    IN [reported EXCEPT !.metrics.errors_count = @ + 1]

\* the error callbacks _handle_error invokes, in order: all of them, or those
\* up to the first that raises
InvokedCallbacks(error_handlers) ==
    LET raising == {k \in 1..Len(error_handlers) :
                       error_handlers[k] = "callback_raise"}
    IN IF raising = {} THEN error_handlers
       ELSE SubSeq(error_handlers, 1, Min(raising))

\* BaseAgent._handle_error: <<agent after, callbacks invoked>>
handle_error(a, error) ==
    LET invoked == InvokedCallbacks(a.error_handlers)
    IN IF Len(invoked) > 0 /\ invoked[Len(invoked)] = "callback_raise"
       THEN <<a, invoked>>
       ELSE <<report_error(a, error), invoked>>

\* what a call leaves for its caller: the handlers and error callbacks it
\* invoked, its return value, the exception it let through
Called(op, handlers, callbacks, result, raised) ==
    [op |-> op, handlers |-> handlers, callbacks |-> callbacks,
     response |-> result, raised |-> raised]

\* a handler invoked with a message
Invocation(handler, m) == [handler |-> handler, message |-> m]

\* BaseAgent.handle_message at the time now: <<agent after, call>>
handle_message(a, m, now) ==
    IF is_expired(m, now)
    THEN <<a, Called("handle_message", <<>>, <<>>, NoValue, NoValue)>>
    ELSE LET received == [a EXCEPT !.metrics.messages_received = @ + 1]
             handler == received.message_handlers[m.message_type]
         IN IF handler = NoValue
            THEN <<received, Called("handle_message", <<>>, <<>>, NoValue, NoValue)>>
            ELSE IF HandlerResult(handler) = "raise"
            THEN LET e == handle_error(received, "HandlerError")
                 IN <<e[1], Called("handle_message", <<Invocation(handler, m)>>,
                                   e[2], NoValue, NoValue)>>
            ELSE <<received, Called("handle_message", <<Invocation(handler, m)>>,
                                    <<>>, HandlerResult(handler), NoValue)>>

\* BaseAgent.initialize; fault: _initialize_impl raises
initialize(a, fault) ==
    LET registered == register_handler(a, "heartbeat", BaseHeartbeatHandler)
    IN IF fault
       THEN <<[registered EXCEPT !.status = "error"],
              Called("initialize", <<>>, <<>>, NoValue, "ImplError")>>
       ELSE <<[registered EXCEPT !.status = "idle"],
              Called("initialize", <<>>, <<>>, NoValue, NoValue)>>

\* BaseAgent.start; fault: _start_impl raises
start(a, fault) ==
    IF a.status # "idle"
    THEN <<a, Called("start", <<>>, <<>>, NoValue, "RuntimeError")>>
    ELSE IF fault
    THEN <<[a EXCEPT !.status = "error"],
           Called("start", <<>>, <<>>, NoValue, "ImplError")>>
    ELSE <<[a EXCEPT !.status = "active"],
           Called("start", <<>>, <<>>, NoValue, NoValue)>>

\* BaseAgent.stop; fault: _stop_impl raises
stop(a, fault) ==
    IF fault
    THEN <<[a EXCEPT !.status = "error"],
           Called("stop", <<>>, <<>>, NoValue, "ImplError")>>
    ELSE <<[a EXCEPT !.status = "completed"],
           Called("stop", <<>>, <<>>, NoValue, NoValue)>>

\* BaseAgent.broadcast_status
broadcast_status(a, new_status) ==
    send_message([a EXCEPT !.status = new_status],
                 AgentMessage("status_update", a.agent_id, NoValue, NoValue,
                              NoExpiry, new_status))

\* a set_message_bus that publishes the buffered messages on the new bus
set_message_bus_flushing(a) ==
    [a EXCEPT !.message_bus = "bus", !.published = a.pending_messages,
              !.pending_messages = <<>>]

\* BaseAgent.set_message_bus: a new bus, nothing published on it yet
set_message_bus(a) ==
    [a EXCEPT !.message_bus = "bus", !.published = <<>>]

(***************************************************************************)
(* One agent under calls from outside.                                     *)
(***************************************************************************)
\* the ids an agent is constructed with and the ids a message carries
AgentId == "agent_1"
EventIds == {NoValue, "event_a"}
SessionIdOfAgent == "session_a"

\* messages handed to handle_message: three kinds, no expiry or expiry at 2
ReceivedMessages ==
    {AgentMessage(k, "agent_2", NoValue, NoValue, x, "request") :
        k \in MessageKinds, x \in {NoExpiry, 2}}

\* the times at which a message is dispatched: before, at and after 2
Times == 1..3

\* messages handed to send_message: ids absent, or ids present
SentMessages ==
    {AgentMessage("event", "agent_2", NoValue, NoValue, NoExpiry, "notice"),
     AgentMessage("event", "agent_2", "event_m", "session_m", NoExpiry, "notice"),
     AgentMessage("event", "agent_1", NoValue, "session_m", NoExpiry, "notice")}

\* the statuses handed to broadcast_status
StatusInputs == {"active", "paused"}

\* the agents the model explores
WithinAgentBounds(a) ==
    /\ Len(a.pending_messages) + Len(a.published) <= MaxMessages
    /\ a.metrics.messages_received <= MaxReceived
    /\ a.metrics.messages_sent <= MaxSent
    /\ Len(a.error_handlers) <= MaxErrorHandlers

AgentConstructed ==
    /\ agent \in {NewAgent(AgentId, e, SessionIdOfAgent) : e \in EventIds}
    /\ call = Called("construct", <<>>, <<>>, NoValue, NoValue)

InitAgent ==
    /\ EngineConstructed
    /\ AgentConstructed
    /\ scheduler = NoValue
    /\ venue = NoValue
    /\ store = NoValue
    /\ writers = NoValue
    /\ instances = NoValue

\* a call returns: the agent and what the caller sees
Return(r) ==
    /\ WithinAgentBounds(r[1])
    /\ agent' = r[1]
    /\ call' = r[2]
    /\ UNCHANGED engineVars
    /\ UNCHANGED <<store, writers, instances, plannerVars>>

AgentInitialize(fault) ==
    \E r \in {initialize(agent, fault)} : Return(r)

AgentStart(fault) ==
    \E r \in {start(agent, fault)} : Return(r)

AgentStop(fault) ==
    \E r \in {stop(agent, fault)} : Return(r)

BroadcastStatus(new_status) ==
    \E a \in {broadcast_status(agent, new_status)} :
        Return(<<a, Called("broadcast_status", <<>>, <<>>, NoValue, NoValue)>>)

RegisterHandler(message_type, handler) ==
    \E a \in {register_handler(agent, message_type, handler)} :
        Return(<<a, Called("register_handler", <<>>, <<>>, NoValue, NoValue)>>)

RegisterErrorHandler(handler) ==
    \E a \in {register_error_handler(agent, handler)} :
        Return(<<a, Called("register_error_handler", <<>>, <<>>, NoValue, NoValue)>>)

SendMessage(m) ==
    \E a \in {send_message(agent, m)} :
        Return(<<a, Called("send_message", <<>>, <<>>, NoValue, NoValue)>>)

SetMessageBus ==
    \E a \in {set_message_bus(agent)} :
        Return(<<a, Called("set_message_bus", <<>>, <<>>, NoValue, NoValue)>>)

HandleMessage(m, now) ==
    \E r \in {handle_message(agent, m, now)} : Return(r)

\* an agent that registers handlers and receives messages
NextDispatch ==
    \/ \E fault \in BOOLEAN : AgentInitialize(fault)
    \/ \E k \in RegisteredKinds, h \in Handlers : RegisterHandler(k, h)
    \/ \E cb \in ErrorCallbacks : RegisterErrorHandler(cb)
    \/ \E m \in ReceivedMessages, now \in Times : HandleMessage(m, now)

SpecDispatch == InitAgent /\ [][NextDispatch]_vars

\* an agent that goes through its lifecycle and sends messages
NextSend ==
    \/ \E fault \in BOOLEAN : AgentInitialize(fault)
    \/ \E fault \in BOOLEAN : AgentStart(fault)
    \/ \E fault \in BOOLEAN : AgentStop(fault)
    \/ \E new_status \in StatusInputs : BroadcastStatus(new_status)
    \/ \E m \in SentMessages : SendMessage(m)
    \/ SetMessageBus

SpecSend == InitAgent /\ [][NextSend]_vars

(***************************************************************************)
(* Properties of the message substrate.                                    *)
(***************************************************************************)
\* the expiry of the message is set and has elapsed at the time now
Elapsed(m, now) == m.expires_at # NoExpiry /\ now > m.expires_at

\* C15: handle_message of a message whose expiry has elapsed invokes no
\* handler, returns no response and leaves the agent, its receive and error
\* counters included, as it was.
C15_ExpiredMessageDropped ==
    [][\A m \in ReceivedMessages : \A now \in Times :
          (/\ call'.op = "handle_message"
           /\ Elapsed(m, now)
           /\ HandleMessage(m, now))
          => /\ call'.handlers = <<>>
             /\ call'.callbacks = <<>>
             /\ call'.response = NoValue
             /\ agent'.metrics = agent.metrics
             /\ agent' = agent]_vars

\* C15 witness: a message was dropped by an agent that has a handler for
\* each kind it registers and has received nothing
C15_Witness ==
    /\ call.op = "handle_message"
    /\ call.handlers = <<>>
    /\ agent.metrics.messages_received = 0
    /\ \A k \in RegisteredKinds : agent.message_handlers[k] # NoValue

\* C16: when the handler of a message that has not expired raises,
\* handle_message lets no exception through and returns no response, every
\* registered error callback is invoked, exactly one error report is sent
\* and the error counter rises by one.
C16_HandlerFailureContained ==
    [][\A m \in ReceivedMessages : \A now \in Times :
          (/\ call'.op = "handle_message"
           /\ ~Elapsed(m, now)
           /\ agent.message_handlers[m.message_type] # NoValue
           /\ HandlerResult(agent.message_handlers[m.message_type]) = "raise"
           /\ HandleMessage(m, now))
          => /\ call'.raised = NoValue
             /\ call'.response = NoValue
             /\ call'.callbacks = agent.error_handlers
             /\ agent'.metrics.errors_count = agent.metrics.errors_count + 1
             /\ Len(agent'.pending_messages) = Len(agent.pending_messages) + 1
             /\ agent'.pending_messages[Len(agent'.pending_messages)].message_type
                    = "error_report"]_vars

\* C17: a registration replaces the handler of its kind and no other; a
\* message that has not expired is passed once to the handler registered for
\* its kind, whose result is returned; without a handler nothing is invoked,
\* nothing returned and no error counted.
C17_LastRegisteredHandlerInvoked ==
    [][/\ \A k \in RegisteredKinds : \A h \in Handlers :
             (call'.op = "register_handler" /\ RegisterHandler(k, h))
             => agent'.message_handlers = [agent.message_handlers EXCEPT ![k] = h]
       /\ \A m \in ReceivedMessages : \A now \in Times :
             (/\ call'.op = "handle_message"
              /\ ~Elapsed(m, now)
              /\ HandleMessage(m, now))
             => LET h == agent.message_handlers[m.message_type]
                IN IF h = NoValue
                   THEN /\ call'.handlers = <<>>
                        /\ call'.callbacks = <<>>
                        /\ call'.response = NoValue
                        /\ agent'.metrics.errors_count = agent.metrics.errors_count
                   ELSE /\ call'.handlers = <<Invocation(h, m)>>
                        /\ HandlerResult(h) # "raise"
                              => call'.response = HandlerResult(h)]_vars

\* C17 witness: a heartbeat went to handler_a, registered after initialize()
\* had registered the base handler for heartbeats
C17_Witness ==
    /\ call.op = "handle_message"
    /\ agent.status = "idle"
    /\ agent.message_handlers["heartbeat"] = "handler_a"
    /\ Len(call.handlers) = 1
    /\ call.handlers[1].handler = "handler_a"
    /\ call.handlers[1].message.message_type = "heartbeat"
    /\ call.response = "response_a"

\* the message as the agent passes it on: its kind and subject kept
Carries(sent_message, m) ==
    /\ sent_message.message_type = m.message_type
    /\ sent_message.subject = m.subject
    /\ sent_message.expires_at = m.expires_at

\* C18: without a bus send_message appends the message to the pending queue
\* and counts it as sent; set_message_bus publishes nothing and leaves the
\* pending queue unchanged; with a bus send_message publishes the message and
\* buffers nothing.
C18_PendingNotFlushedOnAttach ==
    [][/\ \A m \in SentMessages :
             (call'.op = "send_message" /\ SendMessage(m))
             => /\ agent'.metrics.messages_sent = agent.metrics.messages_sent + 1
                /\ IF agent.message_bus = NoValue
                   THEN /\ Len(agent'.pending_messages)
                               = Len(agent.pending_messages) + 1
                        /\ SubSeq(agent'.pending_messages, 1,
                                  Len(agent.pending_messages))
                               = agent.pending_messages
                        /\ Carries(agent'.pending_messages[
                                       Len(agent'.pending_messages)], m)
                        /\ agent'.published = agent.published
                   ELSE /\ Len(agent'.published) = Len(agent.published) + 1
                        /\ SubSeq(agent'.published, 1, Len(agent.published))
                               = agent.published
                        /\ Carries(agent'.published[Len(agent'.published)], m)
                        /\ agent'.pending_messages = agent.pending_messages
       /\ (call'.op = "set_message_bus" /\ SetMessageBus)
             => /\ agent'.message_bus # NoValue
                /\ agent'.published = <<>>
                /\ agent'.pending_messages = agent.pending_messages
                /\ agent'.metrics = agent.metrics]_vars

\* C18 witness: a bus was attached to an agent with a buffered message, and
\* a message sent afterwards is on the bus while the first is still pending
C18_Witness ==
    /\ call.op = "send_message"
    /\ agent.message_bus # NoValue
    /\ Len(agent.pending_messages) = 1
    /\ Len(agent.published) = 1
    /\ agent.metrics.messages_sent = 2

\* the id a message leaves with when ids are filled only where absent
FilledIfAbsent(message_id, agent_id) ==
    IF message_id = NoValue THEN agent_id ELSE message_id

\* the message send_message has just passed on
LastPassedOn ==
    IF agent.message_bus = NoValue
    THEN agent'.pending_messages[Len(agent'.pending_messages)]
    ELSE agent'.published[Len(agent'.published)]

\* C19 as claimed: send_message fills sender id, event id and session id
\* from the agent only where the message has none.
C19_IdsFilledOnlyIfAbsent ==
    [][\A m \in SentMessages :
          (call'.op = "send_message" /\ SendMessage(m))
          => /\ LastPassedOn.sender_id = FilledIfAbsent(m.sender_id, agent.agent_id)
             /\ LastPassedOn.event_id = FilledIfAbsent(m.event_id, agent.event_id)
             /\ LastPassedOn.session_id
                    = FilledIfAbsent(m.session_id, agent.session_id)]_vars

\* C19 as amended: send_message always sets the sender id to the agent's id,
\* and fills event id and session id from the agent only where the message
\* has none.
C19_SenderSetOthersFilledIfAbsent ==
    [][\A m \in SentMessages :
          (call'.op = "send_message" /\ SendMessage(m))
          => /\ LastPassedOn.sender_id = agent.agent_id
             /\ LastPassedOn.event_id = FilledIfAbsent(m.event_id, agent.event_id)
             /\ LastPassedOn.session_id
                    = FilledIfAbsent(m.session_id, agent.session_id)]_vars

\* C19 witness: a message of another sender that carried its own event and
\* session ids was passed on by an agent that has ids of its own
C19_Witness ==
    /\ call.op = "send_message"
    /\ agent.event_id = "event_a"
    /\ agent.message_bus = NoValue
    /\ Len(agent.pending_messages) >= 1
    /\ LET m == agent.pending_messages[Len(agent.pending_messages)]
       IN /\ m.sender_id = "agent_1"
          /\ m.event_id = "event_m"
          /\ m.session_id = "session_m"

\* C20: the status becomes active only from idle and completed only from
\* active, and start() on an agent that is not idle is rejected and leaves
\* the status as it was.
C20_StatusFollowsLifecycle ==
    [][/\ (agent'.status = "active" /\ agent.status # "active")
             => agent.status = "idle"
       /\ (agent'.status = "completed" /\ agent.status # "completed")
             => agent.status = "active"
       /\ (call'.op = "start" /\ agent.status # "idle")
             => /\ agent'.status = agent.status
                /\ call'.raised = "RuntimeError"]_vars


(***************************************************************************)
(* BaseRepository (models/repository.py) and engines that share a session. *)
(* The stored document of one session id, and two engines constructed for  *)
(* that id, each working on the copy it got when it was initialized.       *)
(***************************************************************************)
\* agents a writer may hold and phase transitions it may make
MaxWriterAgents == 2
MaxWriterTransitions == 1

WriterIds == {"writer_1", "writer_2"}
WriterAgentNames == {"participant_agent", "scheduling_agent"}
WriterPhaseInputs == {PARTICIPANT_COLLECTION, SCHEDULE_COORDINATION}

\* the collection holds no document of the session id
NoDocument == [exists |-> FALSE, data |-> NoSession]

\* CoordinationAgent.__init__: no session, an empty registry
NewWriter ==
    [pc |-> "constructed", session |-> NoSession,
     managed_agents |-> [n \in AgentNames |-> 0], result |-> NoValue]

\* BaseRepository.get_by_id: <<found, entity>>
get_by_id(doc) ==
    IF doc.exists THEN <<TRUE, doc.data>> ELSE <<FALSE, NoSession>>

\* BaseRepository.create: <<"ok" or "raised", document after>>
create(doc, entity) ==
    IF doc.exists THEN <<"raised", doc>>
    ELSE <<"ok", [exists |-> TRUE, data |-> entity]>>

\* an update that refuses an entity whose agents do not extend the stored ones
update_guarded(doc, entity) ==
    IF ~doc.exists THEN <<"raised", doc>>
    ELSE IF \/ Len(doc.data.active_agents) > Len(entity.active_agents)
            \/ AgentNamesOf(doc.data.active_agents) #
                   SubSeq(AgentNamesOf(entity.active_agents), 1,
                          Len(doc.data.active_agents))
    THEN <<"raised", doc>>
    ELSE <<"ok", [exists |-> TRUE, data |-> entity]>>

\* BaseRepository.update: every field of the document is set from the entity
\* as soon as the document exists: <<"ok" or "raised", document after>>
update(doc, entity) ==
    IF ~doc.exists THEN <<"raised", doc>>
    ELSE <<"ok", [exists |-> TRUE, data |-> entity]>>

InitStore ==
    /\ EngineConstructed
    /\ scheduler = NoValue
    /\ venue = NoValue
    /\ agent = NoValue
    /\ call = NoValue
    /\ instances = NoValue
    /\ store = NoDocument
    /\ writers = [w \in WriterIds |-> NewWriter]

\* the copies the model explores
WithinWriterBounds(s) ==
    /\ WithinBounds(s)
    /\ Len(s.active_agents) <= MaxWriterAgents
    /\ Len(s.checkpoints) <= MaxWriterTransitions

\* _initialize_impl up to the answer of get_by_id: the stored session becomes
\* the engine's copy, or a new session is built to be created
WriterLoad(w) ==
    /\ writers[w].pc = "constructed"
    /\ \E g \in {get_by_id(store)} :
           writers' = [writers EXCEPT
               ![w].pc = IF g[1] THEN "idle" ELSE "creating",
               ![w].session = IF g[1] THEN g[2] ELSE NewSession]
    /\ UNCHANGED store
    /\ UNCHANGED <<engineVars, substrateVars, instances, plannerVars>>

\* _initialize_impl from create on: create raises when the document exists by
\* now, and BaseAgent.initialize then leaves the engine in ERROR
WriterCreate(w) ==
    /\ writers[w].pc = "creating"
    /\ \E c \in {create(store, writers[w].session)} :
           /\ store' = c[2]
           /\ writers' = [writers EXCEPT
                  ![w].pc = IF c[1] = "ok" THEN "idle" ELSE "error",
                  ![w].result = c[1]]
    /\ UNCHANGED <<engineVars, substrateVars, instances, plannerVars>>

\* _handle_agent_registration of one engine: append to its copy, then update
WriterRegisterAgent(w, name) ==
    /\ writers[w].pc = "idle"
    /\ \E s \in {[writers[w].session EXCEPT
                     !.active_agents = Append(@, NewAgentInstance(name))]} :
           /\ WithinWriterBounds(s)
           /\ \E u \in {update(store, s)} :
                  /\ store' = u[2]
                  /\ writers' = [writers EXCEPT
                         ![w].session = s,
                         ![w].managed_agents[name] = Len(s.active_agents),
                         ![w].result = u[1]]
    /\ UNCHANGED <<engineVars, substrateVars, instances, plannerVars>>

\* _handle_phase_transition_command of one engine: _transition_to_phase on
\* its copy, with an update after every change
WriterTransitionPhase(w, target_phase) ==
    /\ writers[w].pc = "idle"
    /\ \E o \in {TransitionToPhaseImpl(writers[w].session,
                                       writers[w].managed_agents,
                                       target_phase)} :
           /\ WithinWriterBounds(o.s)
           /\ IF o.persisted > 0
              THEN \E u \in {update(store, o.s)} :
                       /\ store' = u[2]
                       /\ writers' = [writers EXCEPT ![w].session = o.s,
                                                     ![w].result = u[1]]
              ELSE /\ store' = store
                   /\ writers' = [writers EXCEPT ![w].result = "rejected"]
    /\ UNCHANGED <<engineVars, substrateVars, instances, plannerVars>>

NextStore ==
    \/ \E w \in WriterIds : WriterLoad(w)
    \/ \E w \in WriterIds : WriterCreate(w)
    \/ \E w \in WriterIds, name \in WriterAgentNames : WriterRegisterAgent(w, name)
    \/ \E w \in WriterIds, p \in WriterPhaseInputs : WriterTransitionPhase(w, p)

SpecStore == InitStore /\ [][NextStore]_vars

\* C13: whatever the stored document holds, a change an initialized engine
\* makes to its copy is written as the whole document and reported as a
\* success: nothing compares the document with what the engine had loaded,
\* so what another engine wrote in between is dropped without an error
C13_UpdateOverwritesUnchecked ==
    [][\A w \in WriterIds :
           (writers[w].pc = "idle" /\ writers'[w].session # writers[w].session)
               => /\ writers'[w].result = "ok"
                  /\ store' = [exists |-> TRUE, data |-> writers'[w].session]]_vars

\* both engines started from the new session, each registered one agent and
\* was told its write succeeded; the stored session lacks the first one's agent
C13_Witness ==
    /\ \A w \in WriterIds : writers[w].pc = "idle" /\ writers[w].result = "ok"
    /\ AgentNamesOf(writers["writer_1"].session.active_agents) =
           <<"participant_agent">>
    /\ AgentNamesOf(writers["writer_2"].session.active_agents) =
           <<"scheduling_agent">>
    /\ writers["writer_1"].session.checkpoints = <<>>
    /\ writers["writer_2"].session.checkpoints = <<>>
    /\ store.exists
    /\ AgentNamesOf(store.data.active_agents) = <<"scheduling_agent">>


(***************************************************************************)
(* Two engines of unrelated sessions.  Every engine is a CoordinationAgent *)
(* and so a BaseAgent: it has its own session copy and registry, and its   *)
(* own handlers, pending queue, counters and status.  They share the       *)
(* collection of stored sessions, which is keyed by session id.            *)
(***************************************************************************)
\* agents an engine registers, phase changes it makes, messages it counts
MaxIsoAgents == 1
MaxIsoTransitions == 2
MaxIsoMessages == 1

InstanceIds == {"session_a", "session_b"}
EventOf(session_id) == IF session_id = "session_a" THEN "event_a" ELSE "event_b"
\* agent_id=f"coordination_agent_{event_id}"
EngineIdOf(session_id) ==
    IF session_id = "session_a" THEN "coordination_agent_event_a"
    ELSE "coordination_agent_event_b"

IsoAgentNames == {"participant_agent"}
IsoPhaseInputs == {PARTICIPANT_COLLECTION}
IsoHandlers == {"handler_a"}
IsoSent == AgentMessage("event", "agent_x", NoValue, NoValue, NoExpiry, "notice")
IsoReceived == AgentMessage("command", "agent_x", NoValue, NoValue, NoExpiry, "request")

\* BaseAgent.__init__ and CoordinationAgent.__init__: every attribute is a
\* new object of the instance
NewInstance(session_id) ==
    [agent |-> NewAgent(EngineIdOf(session_id), EventOf(session_id), session_id),
     session |-> NoSession,
     managed_agents |-> [n \in AgentNames |-> 0],
     response |-> NoValue]

\* one handler table for all instances, as a class attribute would be
OwnStateSharedHandlers(insts, session_id, e) ==
    [j \in DOMAIN insts |->
        IF j = session_id THEN e
        ELSE [insts[j] EXCEPT
                 !.agent.message_handlers = e.agent.message_handlers]]

\* an attribute written through self belongs to the instance that runs
OwnState(insts, session_id, e) == [insts EXCEPT ![session_id] = e]

\* the instances the model explores
WithinIsoBounds(e) ==
    /\ WithinBounds(e.session)
    /\ Len(e.session.active_agents) <= MaxIsoAgents
    /\ Len(e.session.checkpoints) <= MaxIsoTransitions
    /\ e.agent.metrics.messages_sent <= MaxIsoMessages
    /\ e.agent.metrics.messages_received <= MaxIsoMessages

\* what an engine method leaves: its instance and the stored document of its
\* session, written when the method persisted
Persisting(e, doc, o, answer) ==
    <<[e EXCEPT !.session = o.s, !.response = answer],
      IF o.persisted > 0 THEN update(doc, o.s)[2] ELSE doc>>

\* every operation below maps an instance and the document of its session
\* id to the set of its outcomes: none when the operation is not explored
iso_initialize(e, doc) ==
    IF e.agent.status # "initializing" THEN {}
    ELSE LET g == get_by_id(doc)
             s == IF g[1] THEN g[2] ELSE NewSession
         IN {<<[e EXCEPT !.agent = initialize(e.agent, FALSE)[1],
                         !.session = s],
               IF g[1] THEN doc ELSE create(doc, s)[2]>>}

iso_register_agent(e, doc, name) ==
    IF e.agent.status \notin {"idle", "active"} THEN {}
    ELSE LET s == [e.session EXCEPT
                      !.active_agents = Append(@, NewAgentInstance(name))]
         IN {Persisting([e EXCEPT !.managed_agents[name] = Len(s.active_agents)],
                        doc, Outcome(TRUE, s, <<>>, 1), "registered")}

iso_start_agent(e, doc, name, task) ==
    IF e.agent.status \notin {"idle", "active"} THEN {}
    ELSE LET o == StartAgentImpl(e.session, e.managed_agents, name, task)
         IN {Persisting(e, doc, o, IF o.ok THEN "started" ELSE "failed")}

iso_agent_completed(e, doc, name, result) ==
    IF e.agent.status \notin {"idle", "active"} THEN {}
    ELSE LET c == complete_agent(e.session, name, result)
         IN IF c[1]
            THEN LET o == CheckPhaseCompletion(c[2], e.managed_agents)
                 IN {Persisting(e, doc, [o EXCEPT !.persisted = @ + 1], NoValue)}
            ELSE {Persisting(e, doc, Outcome(FALSE, e.session, <<>>, 0), NoValue)}

iso_transition(e, doc, target_phase) ==
    IF e.agent.status \notin {"idle", "active"} THEN {}
    ELSE LET o == TransitionToPhaseImpl(e.session, e.managed_agents, target_phase)
         IN {Persisting(e, doc, o, IF o.ok THEN "success" ELSE "failed")}

iso_register_handler(e, doc, message_type, handler) ==
    {<<[e EXCEPT !.agent = register_handler(e.agent, message_type, handler),
                 !.response = NoValue], doc>>}

iso_send(e, doc, m) ==
    {<<[e EXCEPT !.agent = send_message(e.agent, m), !.response = NoValue], doc>>}

iso_dispatch(e, doc, m, now) ==
    LET r == handle_message(e.agent, m, now)
    IN {<<[e EXCEPT !.agent = r[1], !.response = r[2].response], doc>>}

\* all outcomes of one operation on an instance, within the bounds
InstanceSteps(e, doc) ==
    {r \in iso_initialize(e, doc)
           \cup UNION {iso_register_agent(e, doc, n) : n \in IsoAgentNames}
           \cup UNION {iso_start_agent(e, doc, n, NoValue) : n \in IsoAgentNames}
           \cup UNION {iso_agent_completed(e, doc, n, NoValue) : n \in IsoAgentNames}
           \cup UNION {iso_transition(e, doc, p) : p \in IsoPhaseInputs}
           \cup UNION {iso_register_handler(e, doc, "command", h) : h \in IsoHandlers}
           \cup iso_send(e, doc, IsoSent)
           \cup iso_dispatch(e, doc, IsoReceived, 1) :
        WithinIsoBounds(r[1])}

\* what an engine and its document can become when no other engine exists
RECURSIVE Closure(_)
Closure(S) ==
    LET T == S \cup UNION {InstanceSteps(r[1], r[2]) : r \in S}
    IN IF T = S THEN S ELSE Closure(T)

Alone == [i \in InstanceIds |-> Closure({<<NewInstance(i), NoDocument>>})]

InitIsolation ==
    /\ EngineConstructed
    /\ scheduler = NoValue
    /\ venue = NoValue
    /\ agent = NoValue
    /\ writers = NoValue
    /\ call = [op |-> "construct", on |-> NoValue]
    /\ store = [i \in InstanceIds |-> NoDocument]
    /\ instances = [i \in InstanceIds |-> NewInstance(i)]

\* an operation called on instance i returns
Returned(i, op, r) ==
    /\ WithinIsoBounds(r[1])
    /\ instances' = OwnState(instances, i, r[1])
    /\ store' = [store EXCEPT ![i] = r[2]]
    /\ call' = [op |-> op, on |-> i]
    /\ UNCHANGED <<engineVars, agent, writers, plannerVars>>

IsoInitialize(i) ==
    \E r \in iso_initialize(instances[i], store[i]) : Returned(i, "initialize", r)

IsoRegisterAgent(i, name) ==
    \E r \in iso_register_agent(instances[i], store[i], name) :
        Returned(i, "register_agent", r)

IsoStartAgent(i, name) ==
    \E r \in iso_start_agent(instances[i], store[i], name, NoValue) :
        Returned(i, "start_agent", r)

IsoAgentCompleted(i, name) ==
    \E r \in iso_agent_completed(instances[i], store[i], name, NoValue) :
        Returned(i, "agent_completed", r)

IsoTransitionPhase(i, target_phase) ==
    \E r \in iso_transition(instances[i], store[i], target_phase) :
        Returned(i, "phase_transition", r)

IsoRegisterHandler(i, handler) ==
    \E r \in iso_register_handler(instances[i], store[i], "command", handler) :
        Returned(i, "register_handler", r)

IsoSendMessage(i) ==
    \E r \in iso_send(instances[i], store[i], IsoSent) :
        Returned(i, "send_message", r)

IsoHandleMessage(i) ==
    \E r \in iso_dispatch(instances[i], store[i], IsoReceived, 1) :
        Returned(i, "handle_message", r)

NextIsolation ==
    \/ \E i \in InstanceIds : IsoInitialize(i)
    \/ \E i \in InstanceIds, n \in IsoAgentNames : IsoRegisterAgent(i, n)
    \/ \E i \in InstanceIds, n \in IsoAgentNames : IsoStartAgent(i, n)
    \/ \E i \in InstanceIds, n \in IsoAgentNames : IsoAgentCompleted(i, n)
    \/ \E i \in InstanceIds, p \in IsoPhaseInputs : IsoTransitionPhase(i, p)
    \/ \E i \in InstanceIds, h \in IsoHandlers : IsoRegisterHandler(i, h)
    \/ \E i \in InstanceIds : IsoSendMessage(i)
    \/ \E i \in InstanceIds : IsoHandleMessage(i)

SpecIsolation == InitIsolation /\ [][NextIsolation]_vars

\* C14: an operation called on one engine leaves every other engine (its
\* session copy, registry, handlers, pending queue, counters, status) and
\* every other session's stored document as they were
C14_OthersUntouched ==
    \A j \in InstanceIds \ {call'.on} :
        instances'[j] = instances[j] /\ store'[j] = store[j]

C21_StatusChangeBroadcast ==
    [][agent'.status # agent.status
          => /\ agent'.metrics.messages_sent = agent.metrics.messages_sent + 1
             /\ LastPassedOn.message_type = "status_update"
             /\ LastPassedOn.subject = agent'.status]_vars


(***************************************************************************)
(* SchedulingAgent (agents/scheduling_agent.py).  Times are counted in     *)
(* half hours from midnight of the day the candidates are generated;      *)
(* scores are exact fractions, a component score s is held as             *)
(* s * ScoreScale and a total score as s * 10 * ScoreScale.                *)
(***************************************************************************)
UnitsPerHour == 2
UnitsPerDay == 48
\* timedelta(days=14): the candidate window
WindowDays == 14
\* the first weekday() value of the weekend
Saturday == 5
\* a score of 1.0
ScoreScale == 180
\* the weights of preference, absence of conflict, attendance and type fit
PreferenceWeight == 3
ConflictWeight == 2
AttendanceWeight == 3
FitnessWeight == 2
\* max_preference / 3.0
PreferenceLevels == 3
\* min_distance / 12.0
FitnessHours == 12
\* len(participants_available) >= 2; schedule_options[:5]
MinAvailable == 2
MaxOptions == 5

EventTypes == {"dining", "study", "meeting"}

\* self.event_type_preferences; durations in half hours
event_type_preferences(event_type) ==
    CASE event_type = "dining" ->
             [preferred_hours |-> <<12, 13, 18, 19, 20>>, duration |-> 3]
      [] event_type = "study" ->
             [preferred_hours |-> <<10, 11, 14, 15, 16>>, duration |-> 4]
      [] OTHER ->
             [preferred_hours |-> <<9, 10, 11, 14, 15, 16>>, duration |-> 2]

TimeSlot(start_time, end_time, preference_level) ==
    [start_time |-> start_time, end_time |-> end_time,
     preference_level |-> preference_level]

\* candidate days of one week only
CandidateDaysOneWeek(today) ==
    SelectSeq([d \in 1..7 |-> d], LAMBDA d : (today + d) % 7 < Saturday)

\* the days 1..14 after today that are not Saturday or Sunday; today is the
\* weekday() of the day of the call, Monday = 0
CandidateDays(today) ==
    SelectSeq([d \in 1..WindowDays |-> d], LAMBDA d : (today + d) % 7 < Saturday)

\* SchedulingAgent._generate_potential_time_slots
generate_potential_time_slots(today, event_type) ==
    LET prefs == event_type_preferences(event_type)
        hours == prefs.preferred_hours
        days == CandidateDays(today)
    IN [k \in 1..(Len(days) * Len(hours)) |->
           LET day == days[((k - 1) \div Len(hours)) + 1]
               hour == hours[((k - 1) % Len(hours)) + 1]
               slot_start == day * UnitsPerDay + hour * UnitsPerHour
           IN TimeSlot(slot_start, slot_start + prefs.duration, 2)]

\* an overlap test that counts slots meeting at an end point as overlapping
slots_overlap_touching(slot1, slot2) ==
    ~(slot1.end_time < slot2.start_time \/ slot2.end_time < slot1.start_time)

\* SchedulingAgent._slots_overlap
slots_overlap(slot1, slot2) ==
    ~(slot1.end_time <= slot2.start_time \/ slot2.end_time <= slot1.start_time)

\* SchedulingAgent._slot_fully_contains
slot_fully_contains(container, contained) ==
    /\ container.start_time <= contained.start_time
    /\ contained.end_time <= container.end_time

\* the slots of one participant that overlap the candidate
OverlappingSlots(time_slot, user_slots) ==
    SelectSeq(user_slots, LAMBDA us : slots_overlap(time_slot, us))

\* the conflict-detail entries one participant adds: one for each
\* overlapping slot that does not contain the candidate
ConflictEntries(user_id, time_slot, user_slots) ==
    LET partial == SelectSeq(OverlappingSlots(time_slot, user_slots),
                             LAMBDA us : ~slot_fully_contains(us, time_slot))
    IN [j \in 1..Len(partial) |->
           [user_id |-> user_id, start_time |-> partial[j].start_time,
            end_time |-> partial[j].end_time]]

\* the conflict-detail entries of participants[k..] in dict order
RECURSIVE ConflictDetails(_, _, _)
ConflictDetails(time_slot, participants, k) ==
    IF k > Len(participants) THEN <<>>
    ELSE ConflictEntries(participants[k].user_id, time_slot, participants[k].slots)
             \o ConflictDetails(time_slot, participants, k + 1)

UserIdsOf(participants) == [k \in 1..Len(participants) |-> participants[k].user_id]

MaxPreference(time_slot, user_slots) ==
    LET over == OverlappingSlots(time_slot, user_slots)
    IN Max({0} \cup {over[j].preference_level : j \in 1..Len(over)})

\* SchedulingAgent._analyze_single_time_slot over the participants in dict
\* order; a preference weight w is held as w * ScoreScale
analyze_single_time_slot(time_slot, participants) ==
    LET available ==
            SelectSeq(participants,
                      LAMBDA p : Len(OverlappingSlots(time_slot, p.slots)) > 0)
        unavailable ==
            SelectSeq(participants,
                      LAMBDA p : Len(OverlappingSlots(time_slot, p.slots)) = 0)
    IN [time_slot |-> time_slot,
        participants_available |-> UserIdsOf(available),
        participants_unavailable |-> UserIdsOf(unavailable),
        preference_weights |->
            [k \in 1..Len(available) |->
                (MaxPreference(time_slot, available[k].slots) * ScoreScale)
                    \div PreferenceLevels],
        conflict_details |-> ConflictDetails(time_slot, participants, 1)]

RECURSIVE SumSeq(_, _)
SumSeq(s, k) == IF k > Len(s) THEN 0 ELSE s[k] + SumSeq(s, k + 1)

\* SchedulingAgent._calculate_preference_score
calculate_preference_score(analysis) ==
    IF Len(analysis.preference_weights) = 0 THEN 0
    ELSE SumSeq(analysis.preference_weights, 1) \div Len(analysis.preference_weights)

\* SchedulingAgent._calculate_conflict_score
calculate_conflict_score(analysis) ==
    LET conflict_count == Len(analysis.conflict_details)
        total_participants == Len(analysis.participants_available)
                                  + Len(analysis.participants_unavailable)
    IN IF conflict_count = 0 THEN 0
       ELSE IF total_participants = 0 THEN ScoreScale
       ELSE Min({(conflict_count * ScoreScale) \div total_participants, ScoreScale})

\* TimeSlotAnalysis.get_availability_score
get_availability_score(analysis) ==
    LET total == Len(analysis.participants_available)
                     + Len(analysis.participants_unavailable)
    IN IF total = 0 THEN 0
       ELSE (Len(analysis.participants_available) * ScoreScale) \div total

Abs(x) == IF x < 0 THEN -x ELSE x

\* SchedulingAgent._calculate_event_type_fitness
calculate_event_type_fitness(time_slot, event_type) ==
    LET hours == event_type_preferences(event_type).preferred_hours
        hour == (time_slot.start_time % UnitsPerDay) \div UnitsPerHour
    IN IF \E j \in 1..Len(hours) : hours[j] = hour THEN ScoreScale
       ELSE Max({0, ScoreScale
                       - (Min({Abs(hour - hours[j]) : j \in 1..Len(hours)})
                             * ScoreScale) \div FitnessHours})

\* SchedulingAgent._create_schedule_option
create_schedule_option(analysis, event_type) ==
    [start_time |-> analysis.time_slot.start_time,
     end_time |-> analysis.time_slot.end_time,
     available_participants |-> analysis.participants_available,
     unavailable_participants |-> analysis.participants_unavailable,
     preference_score |-> calculate_preference_score(analysis),
     conflict_score |-> calculate_conflict_score(analysis),
     attendance_rate |-> get_availability_score(analysis),
     type_fitness |-> calculate_event_type_fitness(analysis.time_slot, event_type),
     total_score |->
         calculate_preference_score(analysis) * PreferenceWeight
         + (ScoreScale - calculate_conflict_score(analysis)) * ConflictWeight
         + get_availability_score(analysis) * AttendanceWeight
         + calculate_event_type_fitness(analysis.time_slot, event_type)
               * FitnessWeight]

\* SchedulingAgent._analyze_time_slots
analyze_time_slots(today, event_type, participants) ==
    LET potential_slots == generate_potential_time_slots(today, event_type)
    IN [k \in 1..Len(potential_slots) |->
           analyze_single_time_slot(potential_slots[k], participants)]

\* list.sort(key=total_score, reverse=True): x goes behind every option of
\* the sorted list whose score is not lower
InsertByScore(sorted, x) ==
    LET ahead == Cardinality({j \in 1..Len(sorted) :
                                 sorted[j].total_score >= x.total_score})
    IN SubSeq(sorted, 1, ahead) \o <<x>> \o SubSeq(sorted, ahead + 1, Len(sorted))

RECURSIVE SortByScore(_, _)
SortByScore(options, k) ==
    IF k = 0 THEN <<>>
    ELSE InsertByScore(SortByScore(options, k - 1), options[k])

\* an optimizer that keeps every analysed slot as an option
optimize_schedule_unfiltered(today, event_type, participants) ==
    LET analyses == analyze_time_slots(today, event_type, participants)
        options == [k \in 1..Len(analyses) |->
                       create_schedule_option(analyses[k], event_type)]
        sorted == SortByScore(options, Len(options))
    IN SubSeq(sorted, 1, Min({MaxOptions, Len(sorted)}))

\* an optimizer that keeps the first five qualifying slots before sorting
optimize_schedule_first_found(today, event_type, participants) ==
    LET analyses == analyze_time_slots(today, event_type, participants)
        qualifying == SelectSeq(analyses,
                          LAMBDA a : Len(a.participants_available) >= MinAvailable)
        options == [k \in 1..Min({MaxOptions, Len(qualifying)}) |->
                       create_schedule_option(qualifying[k], event_type)]
    IN SortByScore(options, Len(options))

\* SchedulingAgent._optimize_schedule: the new schedule_options
optimize_schedule(today, event_type, participants) ==
    LET analyses == analyze_time_slots(today, event_type, participants)
        qualifying == SelectSeq(analyses,
                          LAMBDA a : Len(a.participants_available) >= MinAvailable)
        options == [k \in 1..Len(qualifying) |->
                       create_schedule_option(qualifying[k], event_type)]
        sorted == SortByScore(options, Len(options))
    IN SubSeq(sorted, 1, Min({MaxOptions, Len(sorted)}))


(***************************************************************************)
(* One scheduling agent after initialize(): the confirmed participants are *)
(* loaded, the handlers are registered, nothing is optimized yet.          *)
(***************************************************************************)
\* participant updates the agent receives
MaxUpdates == 2

UserIds == <<"user_1", "user_2", "user_3">>

\* a time on the first day of the window, hour given in half hours
OnDayOne(half_hours) == UnitsPerDay + half_hours

\* what a participant may declare: 18:00-20:00 on day one at preference 1,
\* 12:00 on day one to 21:00 on day two at preference 3, or nothing
SlotInputs ==
    {<<TimeSlot(OnDayOne(36), OnDayOne(40), 1)>>,
     <<TimeSlot(OnDayOne(24), OnDayOne(UnitsPerDay + 42), 3)>>,
     <<>>}

\* the weekday of the call: Monday (day one is a Tuesday) or Friday (day
\* one is a Saturday and has no candidates)
TodayInputs == {0, 4}

\* the option a select_schedule command names: the k-th current option, or
\* an id no current option has
OptionInputs == 1..(MaxOptions + 1)

NewScheduler(today, event_type, participants) ==
    [status |-> "idle", today |-> today, event_type |-> event_type,
     participants |-> participants,
     schedule_options |-> <<>>, selected_schedule |-> <<>>,
     notified |-> 0, response |-> NoValue, updates |-> 0]

InitScheduler ==
    /\ EngineConstructed
    /\ agent = NoValue
    /\ call = NoValue
    /\ store = NoValue
    /\ writers = NoValue
    /\ instances = NoValue
    /\ venue = NoValue
    /\ \E today \in TodayInputs :
       \E slots \in [1..Len(UserIds) -> SlotInputs] :
           scheduler = NewScheduler(today, "dining",
                           [k \in 1..Len(UserIds) |->
                               [user_id |-> UserIds[k], slots |-> slots[k]]])

\* SchedulingAgent._select_best_schedule: the agent after selection; one
\* schedule_selected notification is sent when an option was selected
select_best_schedule(s) ==
    IF Len(s.schedule_options) = 0 THEN [s EXCEPT !.notified = 0]
    ELSE [s EXCEPT !.selected_schedule = <<s.schedule_options[1]>>,
                   !.notified = 1]

\* BaseAgent.start with SchedulingAgent._start_impl: analyse, optimize,
\* select the best option
SchedulerStart ==
    /\ scheduler.status = "idle"
    /\ \E o \in {optimize_schedule(scheduler.today, scheduler.event_type,
                                   scheduler.participants)} :
           scheduler' = [select_best_schedule(
                             [scheduler EXCEPT !.schedule_options = o])
                         EXCEPT !.status = "active", !.response = "started"]
    /\ UNCHANGED <<engineVars, substrateVars, storeVars, instances, venue>>

\* COMMAND optimize_schedule: _handle_optimize_schedule_command
OptimizeSchedule ==
    /\ \E o \in {optimize_schedule(scheduler.today, scheduler.event_type,
                                   scheduler.participants)} :
           scheduler' = [scheduler EXCEPT !.schedule_options = o,
                                          !.notified = 0,
                                          !.response = "optimized"]
    /\ UNCHANGED <<engineVars, substrateVars, storeVars, instances, venue>>

\* COMMAND select_schedule: _handle_select_schedule_command
SelectSchedule(k) ==
    /\ scheduler' =
           IF k <= Len(scheduler.schedule_options)
           THEN [scheduler EXCEPT
                    !.selected_schedule = <<scheduler.schedule_options[k]>>,
                    !.notified = 1, !.response = "success"]
           ELSE [scheduler EXCEPT !.notified = 0, !.response = "error"]
    /\ UNCHANGED <<engineVars, substrateVars, storeVars, instances, venue>>

\* QUERY current_schedule: _handle_current_schedule_query
CurrentScheduleQuery ==
    /\ scheduler' =
           [scheduler EXCEPT
               !.notified = 0,
               !.response = IF Len(scheduler.selected_schedule) > 0
                            THEN "selected" ELSE "no_schedule_selected"]
    /\ UNCHANGED <<engineVars, substrateVars, storeVars, instances, venue>>

\* EVENT participant_updated: _handle_participant_updated reloads a
\* confirmed participant, whose slots replace the ones held
ParticipantUpdated(k, slots) ==
    /\ scheduler.updates < MaxUpdates
    /\ scheduler' = [scheduler EXCEPT !.participants[k].slots = slots,
                                      !.updates = @ + 1,
                                      !.notified = 0,
                                      !.response = NoValue]
    /\ UNCHANGED <<engineVars, substrateVars, storeVars, instances, venue>>

NextScheduler ==
    \/ SchedulerStart
    \/ OptimizeSchedule
    \/ \E k \in OptionInputs : SelectSchedule(k)
    \/ CurrentScheduleQuery
    \/ \E k \in 1..Len(UserIds), slots \in SlotInputs : ParticipantUpdated(k, slots)

SpecScheduler == InitScheduler /\ [][NextScheduler]_vars


(***************************************************************************)
(* Properties of the scheduling agent.                                     *)
(***************************************************************************)
\* the participants with a declared slot that overlaps [start_time, end_time),
\* counted from the declarations
AvailableFor(start_time, end_time, participants) ==
    {k \in 1..Len(participants) :
        \E j \in 1..Len(participants[k].slots) :
            /\ participants[k].slots[j].start_time < end_time
            /\ start_time < participants[k].slots[j].end_time}

\* a step that ran the optimizer
Optimizes == scheduler'.response \in {"optimized", "started"}

\* C22: every option the optimizer puts out has at least two available
\* participants, by its own list and by the participants' declarations, and
\* so has every schedule ever selected
C22_OptionsHaveTwoAvailable ==
    /\ [][Optimizes =>
            \A i \in 1..Len(scheduler'.schedule_options) :
                LET o == scheduler'.schedule_options[i]
                IN /\ Len(o.available_participants) >= 2
                   /\ Cardinality(AvailableFor(o.start_time, o.end_time,
                                               scheduler.participants)) >= 2]_vars
    /\ [](\A i \in 1..Len(scheduler.selected_schedule) :
              Len(scheduler.selected_schedule[i].available_participants) >= 2)

\* the optimizer ran on participants of whom two make some candidates
\* qualify while another candidate has a single available participant
C22_Witness ==
    /\ scheduler.response = "optimized"
    /\ Len(scheduler.schedule_options) >= 2
    /\ \E k \in 1..Len(generate_potential_time_slots(scheduler.today,
                                                     scheduler.event_type)) :
          LET c == generate_potential_time_slots(scheduler.today,
                                                 scheduler.event_type)[k]
          IN Cardinality(AvailableFor(c.start_time, c.end_time,
                                      scheduler.participants)) = 1

\* the candidates that qualify, as options, in enumeration order
QualifyingOptions(today, event_type, participants) ==
    LET candidates == generate_potential_time_slots(today, event_type)
        qualifying ==
            SelectSeq(candidates,
                      LAMBDA c : Cardinality(AvailableFor(c.start_time, c.end_time,
                                                          participants)) >= 2)
    IN [k \in 1..Len(qualifying) |->
           create_schedule_option(
               analyze_single_time_slot(qualifying[k], participants), event_type)]

\* option x ranks ahead of option y: a higher total score, or the same
\* score and an earlier place in the enumeration
RanksAhead(x, y) ==
    \/ x.total_score > y.total_score
    \/ x.total_score = y.total_score /\ x.start_time < y.start_time

\* C23: the option list is sorted by non-increasing total score with ties
\* in enumeration order, holds at most five options, these are the
\* qualifying candidates that rank highest, and start() selects index 0
C23_TopFiveSortedStable ==
    [][Optimizes =>
          LET out == scheduler'.schedule_options
              all == QualifyingOptions(scheduler.today, scheduler.event_type,
                                       scheduler.participants)
          IN /\ Len(out) = Min({5, Len(all)})
             /\ \A i \in 1..Len(out) : \E k \in 1..Len(all) : out[i] = all[k]
             /\ \A i, j \in 1..Len(out) : i < j => RanksAhead(out[i], out[j])
             /\ \A k \in 1..Len(all) :
                    (\A i \in 1..Len(out) : out[i] # all[k])
                        => \A i \in 1..Len(out) : RanksAhead(out[i], all[k])
             /\ (scheduler'.response = "started" /\ Len(out) > 0)
                    => scheduler'.selected_schedule = <<out[1]>>]_vars

\* start() ran with more than five qualifying candidates, two of the kept
\* options have the same total score and the first is better than the last
C23_Witness ==
    /\ scheduler.response = "started"
    /\ scheduler.updates = 0
    /\ Len(scheduler.schedule_options) = 5
    /\ Len(QualifyingOptions(scheduler.today, scheduler.event_type,
                             scheduler.participants)) > 5
    /\ scheduler.schedule_options[1].total_score
           > scheduler.schedule_options[5].total_score
    /\ \E i \in 1..4 : scheduler.schedule_options[i].total_score
                           = scheduler.schedule_options[i + 1].total_score
    /\ scheduler.selected_schedule = <<scheduler.schedule_options[1]>>


(***************************************************************************)
(* The analysis of one candidate slot: one participant whose only slot is  *)
(* laid in every position around the candidate, next to other participants.*)
(***************************************************************************)
\* the candidates analysed: dining on day one at 18:00, meeting at 9:00
CandidateInputs ==
    {generate_potential_time_slots(0, "dining")[3],
     generate_potential_time_slots(0, "meeting")[1]}

\* a slot laid around the candidate c: it starts from_start half hours
\* after c starts and ends from_end half hours after c ends
Around(c, from_start, from_end, preference_level) ==
    TimeSlot(c.start_time + from_start, c.end_time + from_end, preference_level)

\* the subject's slot against the candidate: overlapping its start, its
\* end, lying inside it, containing it, equal to it, touching its start,
\* touching its end, apart from it
SubjectSlots(c) ==
    {Around(c, -1, -1, 2), Around(c, 1, 1, 2), Around(c, 1, -1, 2),
     Around(c, -1, 1, 2), Around(c, 0, 0, 2),
     TimeSlot(c.start_time - 2, c.start_time, 2),
     TimeSlot(c.end_time, c.end_time + 2, 2),
     TimeSlot(c.end_time + 1, c.end_time + 3, 2)}

\* what another participant declares: nothing, a containing slot, or two
\* slots that each overlap one end of the candidate
OtherSlots(c) ==
    {<<>>, <<Around(c, -1, 1, 3)>>, <<Around(c, -2, -1, 1), Around(c, 1, 2, 1)>>}

SubjectId == "user_1"
OtherIds == <<"user_2", "user_3">>

\* the participants of an analysis: the subject with one slot, the others
ParticipantsWith(subject_slot, others) ==
    <<[user_id |-> SubjectId, slots |-> <<subject_slot>>]>>
        \o [k \in 1..Len(OtherIds) |-> [user_id |-> OtherIds[k], slots |-> others[k]]]

InitAnalysis ==
    /\ EngineConstructed
    /\ agent = NoValue
    /\ call = NoValue
    /\ store = NoValue
    /\ writers = NoValue
    /\ instances = NoValue
    /\ venue = NoValue
    /\ \E c \in CandidateInputs :
       \E subject_slot \in SubjectSlots(c) :
       \E others \in [1..Len(OtherIds) -> OtherSlots(c)] :
           scheduler = [time_slot |-> c, subject_slot |-> subject_slot,
                        participants |-> ParticipantsWith(subject_slot, others),
                        analysis |-> <<>>, conflict_score |-> <<>>]

\* _analyze_single_time_slot on the candidate, then _calculate_conflict_score
AnalyzeSingleTimeSlot ==
    /\ scheduler.analysis = <<>>
    /\ \E a \in {analyze_single_time_slot(scheduler.time_slot,
                                          scheduler.participants)} :
           scheduler' = [scheduler EXCEPT
                            !.analysis = <<a>>,
                            !.conflict_score = <<calculate_conflict_score(a)>>]
    /\ UNCHANGED <<engineVars, substrateVars, storeVars, instances, venue>>

NextAnalysis == AnalyzeSingleTimeSlot

SpecAnalysis == InitAnalysis /\ [][NextAnalysis]_vars

\* the subject's slot and the candidate share time
SharesTime(s, c) == s.start_time < c.end_time /\ c.start_time < s.end_time
\* the subject's slot covers the whole candidate
Covers(s, c) == s.start_time <= c.start_time /\ c.end_time <= s.end_time
\* the subject's slot and the candidate meet at an end point only
Touches(s, c) == s.end_time = c.start_time \/ c.end_time = s.start_time

InSeq(x, s) == \E i \in 1..Len(s) : s[i] = x

\* the conflict-detail entries of the subject
SubjectEntries(a) ==
    Cardinality({i \in 1..Len(a.conflict_details) :
                    a.conflict_details[i].user_id = SubjectId})

\* the conflict score of the same candidate and participants when the
\* subject's slot covers the candidate
CoveringScore ==
    calculate_conflict_score(
        analyze_single_time_slot(
            scheduler.time_slot,
            [scheduler.participants EXCEPT
                ![1].slots = <<Around(scheduler.time_slot, -1, 1, 2)>>]))

\* the subject is available with one conflict entry when its slot overlaps
\* the candidate without covering it, and unavailable when it only touches
ListedByOverlap ==
    \A i \in 1..Len(scheduler.analysis) :
        LET a == scheduler.analysis[i]
            s == scheduler.subject_slot
            c == scheduler.time_slot
        IN /\ (SharesTime(s, c) /\ ~Covers(s, c))
                 => /\ InSeq(SubjectId, a.participants_available)
                    /\ ~InSeq(SubjectId, a.participants_unavailable)
                    /\ SubjectEntries(a) = 1
           /\ Touches(s, c)
                 => /\ InSeq(SubjectId, a.participants_unavailable)
                    /\ ~InSeq(SubjectId, a.participants_available)
                    /\ SubjectEntries(a) = 0

PartlyOverlapping ==
    /\ scheduler.analysis # <<>>
    /\ SharesTime(scheduler.subject_slot, scheduler.time_slot)
    /\ ~Covers(scheduler.subject_slot, scheduler.time_slot)

\* C24 as claimed: a partly overlapping only slot makes the participant
\* available with exactly one conflict entry and gives a strictly higher
\* conflict score than a covering slot would; a touching slot is no overlap
C24_PartialOverlapRaisesConflict ==
    /\ ListedByOverlap
    /\ PartlyOverlapping => scheduler.conflict_score[1] > CoveringScore

\* C24 as amended: ... and gives a conflict score that is strictly higher
\* than a covering slot would unless that score is already 1.0, the cap of
\* the conflict score, in which case it is equal
C24_PartialOverlapRaisesConflictToCap ==
    /\ ListedByOverlap
    /\ PartlyOverlapping =>
           IF CoveringScore < ScoreScale
           THEN scheduler.conflict_score[1] > CoveringScore
           ELSE scheduler.conflict_score[1] = ScoreScale

\* a slot overlapping the end of the dining candidate was analysed next to
\* a participant with a covering slot: a score above 0 and below the cap
C24_Witness ==
    /\ PartlyOverlapping
    /\ scheduler.subject_slot = Around(scheduler.time_slot, 1, 1, 2)
    /\ CoveringScore = 0
    /\ scheduler.conflict_score[1] > 0
    /\ scheduler.conflict_score[1] < ScoreScale
    /\ Len(scheduler.analysis[1].participants_available) = 2


(***************************************************************************)
(* Scenario A: five participants who each hold one preference-1 slot that  *)
(* ends on a Tuesday of the window at 20:00 and starts at 18:00 or, for    *)
(* some, at 16:00; the event is a dining event.                            *)
(***************************************************************************)
ScenarioUserIds == <<"user_1", "user_2", "user_3", "user_4", "user_5">>
Weekdays == 0..6
Tuesday == 1
\* the half hours of a day at which a scenario slot starts, and where it ends
ScenarioStarts == {32, 36}
ScenarioEnd == 40

\* the days of the window that are Tuesdays
TuesdaysFrom(today) == {d \in 1..WindowDays : (today + d) % 7 = Tuesday}

InitScenarioA ==
    /\ EngineConstructed
    /\ agent = NoValue
    /\ call = NoValue
    /\ store = NoValue
    /\ writers = NoValue
    /\ instances = NoValue
    /\ venue = NoValue
    /\ \E today \in Weekdays :
       \E d \in TuesdaysFrom(today) :
       \E starts \in [1..Len(ScenarioUserIds) -> ScenarioStarts] :
           scheduler = NewScheduler(today, "dining",
               [k \in 1..Len(ScenarioUserIds) |->
                   [user_id |-> ScenarioUserIds[k],
                    slots |-> <<TimeSlot(d * UnitsPerDay + starts[k],
                                         d * UnitsPerDay + ScenarioEnd, 1)>>]])

NextScenarioA ==
    \/ SchedulerStart
    \/ CurrentScheduleQuery

SpecScenarioA == InitScenarioA /\ [][NextScenarioA]_vars

\* midnight of the Tuesday of the scenario
ScenarioDay ==
    (scheduler.participants[1].slots[1].end_time \div UnitsPerDay) * UnitsPerDay

\* C25: after start() the selected schedule is that Tuesday 18:00-19:30 with
\* all five participants available, attendance 1.0, type fitness 1.0 and
\* conflict score 0; the 19:00 candidate is an option with a conflict score
\* above 0 and a lower total score
C25_ScenarioA ==
    scheduler.status = "active" =>
        /\ Len(scheduler.selected_schedule) = 1
        /\ scheduler.selected_schedule[1] = scheduler.schedule_options[1]
        /\ LET best == scheduler.selected_schedule[1]
           IN /\ best.start_time = ScenarioDay + 18 * UnitsPerHour
              /\ best.end_time = ScenarioDay + 19 * UnitsPerHour + 1
              /\ best.available_participants = ScenarioUserIds
              /\ best.unavailable_participants = <<>>
              /\ best.attendance_rate = ScoreScale
              /\ best.type_fitness = ScoreScale
              /\ best.conflict_score = 0
              /\ \E i \in 2..Len(scheduler.schedule_options) :
                     LET later == scheduler.schedule_options[i]
                     IN /\ later.start_time = ScenarioDay + 19 * UnitsPerHour
                        /\ later.conflict_score > 0
                        /\ later.total_score < best.total_score

\* start() ran on a Tuesday with the slots on the Tuesday two weeks later
C25_Witness ==
    /\ scheduler.status = "active"
    /\ scheduler.today = Tuesday
    /\ ScenarioDay = WindowDays * UnitsPerDay
    /\ Len(scheduler.schedule_options) = 2
    /\ Len(scheduler.selected_schedule) = 1


\* C26: right after a run of the optimizer that found no qualifying
\* candidate the option list is empty and no schedule_selected notification
\* was sent, and while the option list is empty a current_schedule query
\* answers no_schedule_selected
C26_NoCandidateNoSchedule ==
    /\ (/\ scheduler.response \in {"optimized", "started"}
        /\ QualifyingOptions(scheduler.today, scheduler.event_type,
                             scheduler.participants) = <<>>)
           => /\ scheduler.schedule_options = <<>>
              /\ scheduler.notified = 0
    /\ (/\ scheduler.schedule_options = <<>>
        /\ scheduler.response \in {"selected", "no_schedule_selected"})
           => scheduler.response = "no_schedule_selected"

(***************************************************************************)
(* Venue agent (src/src/agents/venue_agent.py).                            *)
(*                                                                         *)
(* Scores are Python floats in [0, 1]; here they are exact integers in     *)
(* units of 1/VenueScoreScale.  An absent Optional[int] (rating, cost per  *)
(* person, total cost) is 0: the code tests these values by truthiness, so *)
(* None and 0 take the same branch.  Ratings are in tenths of a star.      *)
(* Feature names are the ASCII renderings of the source's strings.         *)
(* Time is counted in ticks of TickSeconds seconds.                        *)
(***************************************************************************)
MaxRounds == 2
MaxThresholdRounds == 4
MaxEvaluations == 2
MaxVenueMessages == 3
MaxTime == 3

TickSeconds == 100
FailureWindowSeconds == 300
FailureThreshold == 3
VenueScoreScale == 420000
DefaultBudget == 3000
FallbackPenaltyTenths == 7
TimePenaltyTenths == 8
BudgetPenaltyTenths == 9
AccessPenaltyTenths == 7
GoogleCapacity == 30
GurumeCapacity == 20

ApiNames == <<"google_places", "gurume">>

VenueEventTypes == {"dining", "study", "meeting"}

(* self.search_settings: the entries the search reads. *)
search_settings(event_type) ==
    CASE event_type = "dining" ->
            [gurume_categories |-> <<"RSFST08000", "RSFST09000">>,
             required_features |-> <<"meal_service">>]
      [] event_type = "study" ->
            [gurume_categories |-> <<>>,
             required_features |-> <<"wifi", "quiet">>]
      [] OTHER ->
            [gurume_categories |-> <<>>,
             required_features |-> <<"projector", "wifi", "meeting_equipment">>]

(* VenueSearchCriteria as _prepare_search_criteria builds it. *)
prepare_search_criteria(event_type, participant_ids) ==
    [event_type |-> event_type,
     participant_count |-> IF participant_ids = 0 THEN 5 ELSE participant_ids,
     budget_per_person |-> DefaultBudget,
     required_features |-> search_settings(event_type).required_features,
     accessibility_required |-> FALSE]

(* A Venue: the fields the search, the evaluation and the selection use. *)
Venue(venue_id, capacity, estimated_cost_per_person, rating, features, booking_status) ==
    [venue_id |-> venue_id,
     capacity |-> capacity,
     estimated_cost_per_person |-> estimated_cost_per_person,
     rating |-> rating,
     features |-> features,
     business_hours |-> <<>>,
     wheelchair_accessible |-> FALSE,
     booking_status |-> booking_status]

has_feature(v, feature_name) == feature_name \in v.features

Min2(a, b) == IF a < b THEN a ELSE b

Max2(a, b) == IF a > b THEN a ELSE b

(* Venue.calculate_suitability_score, in units of 1/VenueScoreScale. *)
calculate_suitability_score(v, participant_count, budget_per_person, required_features) ==
    LET S == VenueScoreScale
        utilization == (S * participant_count) \div v.capacity
        capacity_score ==
            IF participant_count > v.capacity THEN 0
            ELSE IF 10 * utilization >= 7 * S /\ 10 * utilization <= 8 * S THEN S
            ELSE IF 10 * utilization < 7 * S THEN (10 * utilization) \div 7
            ELSE Max2(0, S - 5 * (utilization - (8 * S) \div 10))
        budget_score ==
            IF budget_per_person # 0 /\ v.estimated_cost_per_person # 0
               /\ v.estimated_cost_per_person > budget_per_person
            THEN Max2(0, S - ((S * v.estimated_cost_per_person) \div budget_per_person - S))
            ELSE S
        matched_features ==
            Cardinality({i \in 1..Len(required_features) :
                            has_feature(v, required_features[i])})
        feature_score ==
            IF Len(required_features) > 0
            THEN (S * matched_features) \div Len(required_features)
            ELSE S
        rating_score ==
            IF v.rating # 0 THEN (S * (v.rating - 10)) \div 40 ELSE S \div 2
        score == (4 * capacity_score + 3 * budget_score
                  + 2 * feature_score + rating_score) \div 10
    IN  Min2(S, Max2(0, score))

(* One place of a Google Places answer / one restaurant of a gurume answer. *)
Place(place_id, rating, price_level, types) ==
    [place_id |-> place_id, rating |-> rating,
     price_level |-> price_level, types |-> types]

Restaurant(id, category, budget) ==
    [id |-> id, category |-> category, budget |-> budget]

(* _mock_google_places_search / _mock_gurume_search *)
mock_google_places_search ==
    <<Place("mock_place_1", 42, 2, {"restaurant", "food", "establishment"}),
      Place("mock_place_2", 40, 1, {"cafe", "establishment"})>>

mock_gurume_search ==
    <<Restaurant("mock_gurume_1", "washoku", 3000),
      Restaurant("mock_gurume_2", "french", 4000)>>

(* An answer in which two places carry the same figures, so that their
   scores are equal. *)
TwinPlaces ==
    <<Place("mock_place_1", 42, 2, {"restaurant", "food", "establishment"}),
      Place("mock_place_3", 42, 2, {"restaurant", "establishment"})>>

estimate_cost_from_price_level(price_level) ==
    CASE price_level = 0 -> 500
      [] price_level = 1 -> 1500
      [] price_level = 2 -> 3000
      [] price_level = 3 -> 5000
      [] price_level = 4 -> 8000
      [] OTHER -> 3000

convert_places_to_venue(place_data) ==
    Venue(place_data.place_id, GoogleCapacity,
          estimate_cost_from_price_level(place_data.price_level),
          place_data.rating,
          (IF "cafe" \in place_data.types THEN {"wifi"} ELSE {})
            \cup (IF "restaurant" \in place_data.types THEN {"meal_service"} ELSE {}),
          "pending")

convert_gurume_to_venue(restaurant_data) ==
    Venue(restaurant_data.id, GurumeCapacity, restaurant_data.budget, 0,
          (IF restaurant_data.category = "washoku" THEN {"washoku"}
           ELSE IF restaurant_data.category = "french" THEN {"yoshoku"} ELSE {})
            \cup {"meal_service"},
          "pending")

VenueSearchResult(v, source_api, suitability_score, estimated_total_cost, notes) ==
    [venue |-> v,
     source_api |-> source_api,
     suitability_score |-> suitability_score,
     booking_required |-> TRUE,
     estimated_total_cost |-> estimated_total_cost,
     notes |-> notes]

(* The result built for one converted venue by _search_google_places and
   _search_gurume. *)
SourceResult(v, source_api, criteria) ==
    VenueSearchResult(v, source_api,
        calculate_suitability_score(v, criteria.participant_count,
            criteria.budget_per_person, criteria.required_features),
        v.estimated_cost_per_person * criteria.participant_count,
        <<>>)

(* What the environment makes of one query: the answer of the API and the
   number of its items converted before an exception is raised (fault is
   <<>> when none is raised). *)
Answer(data, fault) == [data |-> data, fault |-> fault]

Failed(answer) == answer.fault # <<>>

Kept(answer) ==
    IF Failed(answer)
    THEN SubSeq(answer.data, 1, Min2(answer.fault[1], Len(answer.data)))
    ELSE answer.data

(* _search_google_places / _search_gurume: the results appended before the
   exception, if any; the failure is recorded by the caller below under the
   source's own name. *)
search_google_places(answer, criteria) ==
    [i \in 1..Len(Kept(answer)) |->
        SourceResult(convert_places_to_venue(Kept(answer)[i]), "google_places", criteria)]

search_gurume(answer, criteria) ==
    [i \in 1..Len(Kept(answer)) |->
        SourceResult(convert_gurume_to_venue(Kept(answer)[i]), "gurume", criteria)]

(* _fallback_search *)
fallback_venues ==
    <<Venue("meeting_room_a_fallback", 20, 2000, 0, {}, "manual_required"),
      Venue("cafe_b_fallback", 15, 1500, 0, {}, "manual_required")>>

fallback_search_unpenalised(criteria) ==
    [i \in 1..Len(fallback_venues) |->
        VenueSearchResult(fallback_venues[i], "manual_fallback",
            calculate_suitability_score(fallback_venues[i],
                criteria.participant_count, criteria.budget_per_person,
                criteria.required_features),
            0,
            <<"manual_confirmation_required", "fallback_after_api_failure">>)]

fallback_search(criteria) ==
    [i \in 1..Len(fallback_venues) |->
        VenueSearchResult(fallback_venues[i], "manual_fallback",
            (calculate_suitability_score(fallback_venues[i],
                criteria.participant_count, criteria.budget_per_person,
                criteria.required_features) * FallbackPenaltyTenths) \div 10,
            0,
            <<"manual_confirmation_required", "fallback_after_api_failure">>)]

APIFailureRecord(api_name, failure_time) ==
    [api_name |-> api_name, failure_time |-> failure_time, retry_count |-> 0]

(* _should_use_api *)
RecentFailures(api_failures, api_name, now) ==
    {i \in 1..Len(api_failures) :
        /\ api_failures[i].api_name = api_name
        /\ (now - api_failures[i].failure_time) * TickSeconds < FailureWindowSeconds}

\* an eligibility test for which a recorded failure never ages
should_use_api_unaged(a, api_name) ==
    IF Cardinality({i \in 1..Len(a.api_failures) :
            a.api_failures[i].api_name = api_name}) >= FailureThreshold
    THEN FALSE
    ELSE IF api_name = "google_places" /\ ~a.google_places_api_key THEN FALSE
    ELSE IF api_name = "gurume" /\ ~a.gurume_api_key THEN FALSE
    ELSE IF api_name = "gurume"
            /\ search_settings(a.event_type).gurume_categories = <<>> THEN FALSE
    ELSE TRUE

should_use_api_any_source(a, api_name) ==
    IF Cardinality({i \in 1..Len(a.api_failures) :
            (a.now - a.api_failures[i].failure_time) * TickSeconds
                < FailureWindowSeconds}) >= FailureThreshold
    THEN FALSE
    ELSE IF api_name = "google_places" /\ ~a.google_places_api_key THEN FALSE
    ELSE IF api_name = "gurume" /\ ~a.gurume_api_key THEN FALSE
    ELSE IF api_name = "gurume"
            /\ search_settings(a.event_type).gurume_categories = <<>> THEN FALSE
    ELSE TRUE

should_use_api(a, api_name) ==
    IF Cardinality(RecentFailures(a.api_failures, api_name, a.now)) >= FailureThreshold
    THEN FALSE
    ELSE IF api_name = "google_places" /\ ~a.google_places_api_key THEN FALSE
    ELSE IF api_name = "gurume" /\ ~a.gurume_api_key THEN FALSE
    ELSE IF api_name = "gurume"
            /\ search_settings(a.event_type).gurume_categories = <<>> THEN FALSE
    ELSE TRUE

(* _record_api_failure for the sources of one round that raised, in the
   order in which their coroutines reached it; each record also sends one
   api_failure event (BaseAgent.send_message never raises). *)
record_api_failures(a, names) ==
    [a EXCEPT !.api_failures =
                  @ \o [i \in 1..Len(names) |-> APIFailureRecord(names[i], a.now)],
              !.messages_sent = @ + Len(names)]

(* What the last handler did: the sources it queried, what each of them
   answered, which of them raised, and what the round returned. *)
Round(op, answers, failed, returned) ==
    [op |-> op, queried |-> DOMAIN answers, answers |-> answers,
     failed |-> failed, returned |-> returned, raised |-> FALSE]

Queried(a, google_answer, gurume_answer) ==
    [n \in {m \in {"google_places", "gurume"} : should_use_api(a, m)} |->
        IF n = "google_places" THEN google_answer ELSE gurume_answer]

\* a round in which one failing source discards what the others returned
search_venues_aborting(a, google_answer, gurume_answer, google_first) ==
    LET use_google == should_use_api(a, "google_places")
        use_gurume == should_use_api(a, "gurume")
        google_failed == use_google /\ Failed(google_answer)
        gurume_failed == use_gurume /\ Failed(gurume_answer)
        google_results ==
            IF use_google /\ ~gurume_failed
            THEN search_google_places(google_answer, a.search_criteria) ELSE <<>>
        gurume_results ==
            IF use_gurume /\ ~google_failed
            THEN search_gurume(gurume_answer, a.search_criteria) ELSE <<>>
        google_names == IF google_failed THEN <<"google_places">> ELSE <<>>
        gurume_names == IF gurume_failed THEN <<"gurume">> ELSE <<>>
        names == IF google_first THEN google_names \o gurume_names
                 ELSE gurume_names \o google_names
        api_results == google_results \o gurume_results
        all_results == IF Len(api_results) = 0 THEN fallback_search(a.search_criteria)
                       ELSE api_results
        recorded == record_api_failures(a, names)
    IN  [recorded EXCEPT
            !.search_results = all_results,
            !.evaluations = 0,
            !.rounds = @ + 1,
            !.last = Round("search_venues",
                           Queried(a, google_answer, gurume_answer),
                           {names[i] : i \in 1..Len(names)}, all_results)]

(* _search_venues: the eligible sources are queried together and joined
   (asyncio.gather); their results are merged in the order google_places,
   gurume; the fallback is used when the merged list is empty.  Neither
   _search_google_places nor _search_gurume lets an exception out, so the
   branch of the join that records a failure under "unknown" is never
   taken. *)
search_venues(a, google_answer, gurume_answer, google_first) ==
    LET use_google == should_use_api(a, "google_places")
        use_gurume == should_use_api(a, "gurume")
        google_results ==
            IF use_google THEN search_google_places(google_answer, a.search_criteria)
            ELSE <<>>
        gurume_results ==
            IF use_gurume THEN search_gurume(gurume_answer, a.search_criteria)
            ELSE <<>>
        google_names ==
            IF use_google /\ Failed(google_answer) THEN <<"google_places">> ELSE <<>>
        gurume_names ==
            IF use_gurume /\ Failed(gurume_answer) THEN <<"gurume">> ELSE <<>>
        names == IF google_first THEN google_names \o gurume_names
                 ELSE gurume_names \o google_names
        api_results == google_results \o gurume_results
        all_results == IF Len(api_results) = 0 THEN fallback_search(a.search_criteria)
                       ELSE api_results
        recorded == record_api_failures(a, names)
    IN  [recorded EXCEPT
            !.search_results = all_results,
            !.evaluations = 0,
            !.rounds = @ + 1,
            !.last = Round("search_venues",
                           Queried(a, google_answer, gurume_answer),
                           {names[i] : i \in 1..Len(names)}, all_results)]

(* _check_time_suitability: a venue without business hours is suitable, and
   no venue the searches build has any. *)
check_time_suitability(v) == v.business_hours = <<>>

Penalised(score, tenths) == (score * tenths) \div 10

EvaluatedResult(result, criteria) ==
    LET timed ==
            IF ~check_time_suitability(result.venue)
            THEN [result EXCEPT !.notes = Append(@, "business_hours_may_not_fit"),
                                !.suitability_score = Penalised(@, TimePenaltyTenths)]
            ELSE result
        budgeted ==
            IF /\ timed.estimated_total_cost # 0
               /\ criteria.budget_per_person # 0
               /\ timed.estimated_total_cost
                    > criteria.budget_per_person * criteria.participant_count
            THEN [timed EXCEPT !.notes = Append(@, "may_exceed_budget"),
                               !.suitability_score = Penalised(@, BudgetPenaltyTenths)]
            ELSE timed
    IN  IF criteria.accessibility_required /\ ~budgeted.venue.wheelchair_accessible
        THEN [budgeted EXCEPT !.notes = Append(@, "accessibility_unconfirmed"),
                              !.suitability_score = Penalised(@, AccessPenaltyTenths)]
        ELSE budgeted

(* list.sort(key=suitability_score, reverse=True): stable, so equal scores
   keep their order. *)
InsertBySuitability(sorted, x) ==
    LET ahead == Cardinality({j \in 1..Len(sorted) :
                                 sorted[j].suitability_score >= x.suitability_score})
    IN SubSeq(sorted, 1, ahead) \o <<x>> \o SubSeq(sorted, ahead + 1, Len(sorted))

RECURSIVE SortBySuitability(_, _)
SortBySuitability(results, k) ==
    IF k = 0 THEN <<>>
    ELSE InsertBySuitability(SortBySuitability(results, k - 1), results[k])

(* _evaluate_search_results *)
evaluate_search_results(a) ==
    LET evaluated == [i \in 1..Len(a.search_results) |->
                         EvaluatedResult(a.search_results[i], a.search_criteria)]
    IN  [a EXCEPT !.search_results = SortBySuitability(evaluated, Len(evaluated)),
                  !.evaluations = @ + 1]

(* _select_best_venue, with the venue_selected event of
   _notify_venue_selection.  The selected venue is the object held by the
   first result, so the booking status shows in both. *)
select_best_venue(a) ==
    IF Len(a.search_results) = 0 THEN a
    ELSE LET best_result == a.search_results[1]
             booking_status ==
                 IF best_result.source_api = "manual_fallback"
                 THEN "manual_required" ELSE "pending"
             selected == [best_result.venue EXCEPT !.booking_status = booking_status]
         IN  [a EXCEPT !.selected_venue = <<selected>>,
                       !.search_results[1].venue = selected,
                       !.messages_sent = @ + 1]

(***************************************************************************)
(* The venue agent as a state machine: one initialized agent, the rounds   *)
(* its handlers run, and the clock its failure window reads.               *)
(***************************************************************************)
VenueEventInputs == {"dining", "study"}

ParticipantInputs == {0, 14}

ApiKeyInputs == {<<TRUE, TRUE>>, <<FALSE, TRUE>>}

GoogleAnswers ==
    {Answer(mock_google_places_search, <<>>), Answer(TwinPlaces, <<>>),
     Answer(mock_google_places_search, <<0>>), Answer(mock_google_places_search, <<1>>)}

GurumeAnswers ==
    {Answer(mock_gurume_search, <<>>), Answer(<<>>, <<>>),
     Answer(mock_gurume_search, <<0>>)}

(* VenueAgent.__init__ followed by _initialize_impl. *)
NewVenueAgent(event_type, participant_ids, google_places_api_key, gurume_api_key) ==
    [event_type |-> event_type,
     participant_ids |-> participant_ids,
     google_places_api_key |-> google_places_api_key,
     gurume_api_key |-> gurume_api_key,
     search_criteria |-> prepare_search_criteria(event_type, participant_ids),
     search_results |-> <<>>,
     selected_venue |-> <<>>,
     api_failures |-> <<>>,
     messages_sent |-> 0,
     now |-> 0,
     rounds |-> 0,
     evaluations |-> 0,
     response |-> <<>>,
     last |-> Round("initialize", <<>>, {}, <<>>)]

InitVenue ==
    /\ EngineConstructed
    /\ agent = NoValue
    /\ call = NoValue
    /\ store = NoValue
    /\ writers = NoValue
    /\ instances = NoValue
    /\ scheduler = NoValue
    /\ \E event_type \in VenueEventInputs :
       \E participant_ids \in ParticipantInputs :
       \E keys \in ApiKeyInputs :
           venue = NewVenueAgent(event_type, participant_ids, keys[1], keys[2])

(* BaseAgent.start with VenueAgent._start_impl: search, evaluate, select. *)
start_impl(a, google_answer, gurume_answer, google_first) ==
    [select_best_venue(evaluate_search_results(
        search_venues(a, google_answer, gurume_answer, google_first)))
     EXCEPT !.last.op = "start", !.response = <<>>]

(* _handle_command, "search_venues": a round whose results are answered as
   the search returned them. *)
handle_search_venues(a, google_answer, gurume_answer, google_first) ==
    LET o == search_venues(a, google_answer, gurume_answer, google_first)
    IN  [o EXCEPT !.response =
            <<[status |-> "success",
               results_count |-> Len(o.search_results),
               top_venue |-> o.search_results[1].venue.venue_id]>>]

(* _handle_command, "select_venue" *)
handle_select_venue(a, venue_id) ==
    LET found == {i \in 1..Len(a.search_results) :
                     a.search_results[i].venue.venue_id = venue_id}
    IN  IF found = {}
        THEN [a EXCEPT !.response = <<[status |-> "error"]>>,
                       !.last.op = "select_venue"]
        ELSE LET first == CHOOSE i \in found : \A j \in found : i <= j
             IN  [a EXCEPT
                     !.selected_venue = <<a.search_results[first].venue>>,
                     !.messages_sent = @ + 1,
                     !.response = <<[status |-> "success", selected_venue |-> venue_id]>>,
                     !.last.op = "select_venue"]

(* _handle_event, "schedule_updated": the criteria are prepared again and a
   round is run; nothing is evaluated or selected. *)
handle_schedule_updated(a, google_answer, gurume_answer, google_first) ==
    [search_venues(
        [a EXCEPT !.search_criteria =
            prepare_search_criteria(a.event_type, a.participant_ids)],
        google_answer, gurume_answer, google_first)
     EXCEPT !.last.op = "schedule_updated", !.response = <<>>]

(* _handle_event, "participant_count_changed": the held results are
   evaluated once more. *)
handle_participant_count_changed(a) ==
    [evaluate_search_results(a) EXCEPT
        !.last.op = "participant_count_changed", !.response = <<>>]

VenueStart(google_answer, gurume_answer, google_first) ==
    /\ venue.rounds < MaxRounds
    /\ \E o \in {start_impl(venue, google_answer, gurume_answer, google_first)} :
          venue' = o
    /\ UNCHANGED <<engineVars, substrateVars, storeVars, instances, scheduler>>

SearchVenuesCommand(google_answer, gurume_answer, google_first) ==
    /\ venue.rounds < MaxRounds
    /\ \E o \in {handle_search_venues(venue, google_answer, gurume_answer,
                                      google_first)} :
          venue' = o
    /\ UNCHANGED <<engineVars, substrateVars, storeVars, instances, scheduler>>

SelectVenueCommand(venue_id) ==
    /\ venue.messages_sent < MaxVenueMessages
    /\ venue' = handle_select_venue(venue, venue_id)
    /\ UNCHANGED <<engineVars, substrateVars, storeVars, instances, scheduler>>

ScheduleUpdated(google_answer, gurume_answer, google_first) ==
    /\ venue.rounds < MaxRounds
    /\ \E o \in {handle_schedule_updated(venue, google_answer, gurume_answer,
                                         google_first)} :
          venue' = o
    /\ UNCHANGED <<engineVars, substrateVars, storeVars, instances, scheduler>>

ParticipantCountChanged ==
    /\ venue.evaluations < MaxEvaluations
    /\ venue' = handle_participant_count_changed(venue)
    /\ UNCHANGED <<engineVars, substrateVars, storeVars, instances, scheduler>>

VenueIds ==
    {"mock_place_1", "mock_place_2", "mock_place_3", "mock_gurume_1",
     "mock_gurume_2", "meeting_room_a_fallback", "cafe_b_fallback"}

NextVenue ==
    \/ \E google_answer \in GoogleAnswers :
       \E gurume_answer \in GurumeAnswers :
       \E google_first \in BOOLEAN :
           \/ VenueStart(google_answer, gurume_answer, google_first)
           \/ SearchVenuesCommand(google_answer, gurume_answer, google_first)
           \/ ScheduleUpdated(google_answer, gurume_answer, google_first)
    \/ \E venue_id \in VenueIds : SelectVenueCommand(venue_id)
    \/ ParticipantCountChanged

SpecVenue == InitVenue /\ [][NextVenue]_vars

(***************************************************************************)
(* The failure window: one dining agent holding both keys, whose sources   *)
(* answer or raise at once, over rounds spread in time.                    *)
(***************************************************************************)
InitThreshold ==
    /\ EngineConstructed
    /\ agent = NoValue
    /\ call = NoValue
    /\ store = NoValue
    /\ writers = NoValue
    /\ instances = NoValue
    /\ scheduler = NoValue
    /\ venue = NewVenueAgent("dining", 0, TRUE, TRUE)

ThresholdGoogleAnswers ==
    {Answer(mock_google_places_search, <<>>), Answer(mock_google_places_search, <<0>>)}

ThresholdGurumeAnswers ==
    {Answer(mock_gurume_search, <<>>), Answer(mock_gurume_search, <<0>>)}

(* start and the "search_venues" command, as above, at a moment of the clock *)
TimedStart(google_answer, gurume_answer, google_first) ==
    /\ venue.rounds < MaxThresholdRounds
    /\ \E o \in {start_impl(venue, google_answer, gurume_answer, google_first)} :
          venue' = o
    /\ UNCHANGED <<engineVars, substrateVars, storeVars, instances, scheduler>>

TimedSearchVenuesCommand(google_answer, gurume_answer, google_first) ==
    /\ venue.rounds < MaxThresholdRounds
    /\ \E o \in {handle_search_venues(venue, google_answer, gurume_answer,
                                      google_first)} :
          venue' = o
    /\ UNCHANGED <<engineVars, substrateVars, storeVars, instances, scheduler>>

(* datetime.utcnow() moves on between two handlers. *)
VenueTick ==
    /\ venue.now < MaxTime
    /\ venue' = [venue EXCEPT !.now = @ + 1]
    /\ UNCHANGED <<engineVars, substrateVars, storeVars, instances, scheduler>>

NextThreshold ==
    \/ \E google_answer \in ThresholdGoogleAnswers :
       \E gurume_answer \in ThresholdGurumeAnswers :
       \E google_first \in BOOLEAN :
           \/ TimedStart(google_answer, gurume_answer, google_first)
           \/ TimedSearchVenuesCommand(google_answer, gurume_answer, google_first)
    \/ VenueTick

SpecThreshold == InitThreshold /\ [][NextThreshold]_vars

(* The failures recorded for api_name that are less than five minutes old
   at the present moment. *)
FailedRoundsInWindow(api_name) ==
    Cardinality({i \in 1..Len(venue.api_failures) :
        /\ venue.api_failures[i].api_name = api_name
        /\ venue.api_failures[i].failure_time <= venue.now
        /\ (venue.now - venue.api_failures[i].failure_time) * TickSeconds
              < FailureWindowSeconds})

RoundRun == venue'.rounds = venue.rounds + 1

(* C27: Scenario C.  A search round run while a source has three failed
   rounds inside the trailing five minutes does not query that source and
   queries every other source that has fewer than three of its own; the
   failures of one source never count toward the threshold of another. *)
C27_ThresholdSkipsSource ==
    [][RoundRun =>
        \A n \in {"google_places", "gurume"} :
            /\ FailedRoundsInWindow(n) >= FailureThreshold
                  => n \notin venue'.last.queried
            /\ FailedRoundsInWindow(n) < FailureThreshold
                  => n \in venue'.last.queried]_vars

C27_Witness ==
    /\ venue.rounds = MaxThresholdRounds
    /\ venue.now > 0
    /\ venue.last.queried = {"gurume"}
    /\ Cardinality({i \in 1..Len(venue.api_failures) :
                       venue.api_failures[i].api_name = "google_places"}) = 3
    /\ Cardinality({i \in 1..Len(venue.api_failures) :
                       venue.api_failures[i].api_name = "gurume"}) = 2

NewFailures ==
    SubSeq(venue'.api_failures, Len(venue.api_failures) + 1, Len(venue'.api_failures))

Returns(venue_id, source_api) ==
    \E j \in 1..Len(venue'.last.returned) :
        /\ venue'.last.returned[j].venue.venue_id = venue_id
        /\ venue'.last.returned[j].source_api = source_api

IdOf(source_api, item) ==
    IF source_api = "google_places" THEN item.place_id ELSE item.id

(* C28: in a search round, every queried source that raises leaves exactly
   one failure record under its own name, stamped with the time of the
   round, and nothing else is recorded; every result of a queried source
   that did not raise is returned, whatever the other source did; and the
   round returns without raising. *)
C28_FailureContained ==
    [][RoundRun =>
        LET answers == venue'.last.answers
            raising == {n \in DOMAIN answers : Failed(answers[n])}
        IN  /\ Len(NewFailures) = Cardinality(raising)
            /\ \A n \in raising :
                  \E i \in 1..Len(NewFailures) :
                      /\ NewFailures[i].api_name = n
                      /\ NewFailures[i].failure_time = venue.now
            /\ \A n \in (DOMAIN answers) \ raising :
                  \A i \in 1..Len(answers[n].data) :
                      Returns(IdOf(n, answers[n].data[i]), n)
            /\ ~venue'.last.raised]_vars

C28_Witness ==
    /\ venue.last.queried = {"google_places", "gurume"}
    /\ venue.last.failed = {"google_places"}
    /\ Len(venue.api_failures) = 1
    /\ venue.api_failures[1].api_name = "google_places"
    /\ Len(venue.last.returned) = 2
    /\ \A j \in 1..Len(venue.last.returned) :
          venue.last.returned[j].source_api = "gurume"

FallbackIds == {fallback_venues[i].venue_id : i \in 1..Len(fallback_venues)}

(* A fallback candidate as the search must present it. *)
IsFallbackCandidate(result) ==
    /\ result.venue.venue_id \in FallbackIds
    /\ result.source_api = "manual_fallback"
    /\ \E i \in 1..Len(result.notes) : result.notes[i] = "manual_confirmation_required"
    /\ result.venue.booking_status = "manual_required"
    /\ 10 * result.suitability_score =
          7 * calculate_suitability_score(result.venue,
                  venue.search_criteria.participant_count,
                  venue.search_criteria.budget_per_person,
                  venue.search_criteria.required_features)

NoSourceResult(round) ==
    \A n \in DOMAIN round.answers : Len(Kept(round.answers[n])) = 0

HeldFallback ==
    {i \in 1..Len(venue.search_results) :
        \/ venue.search_results[i].source_api = "manual_fallback"
        \/ venue.search_results[i].venue.venue_id \in FallbackIds}

(* C29: a round in which no source yields a result returns exactly the fixed
   fallback candidates, each from manual_fallback, flagged for manual
   confirmation and scored 0.7 times its suitability; a round in which some
   source yields a result returns no fallback candidate; and the fallback
   candidates held keep that flag and that score through every later
   evaluation. *)
C29_FallbackTier ==
    /\ [](\A i \in HeldFallback : IsFallbackCandidate(venue.search_results[i]))
    /\ [](HeldFallback # {} =>
             /\ Len(venue.search_results) = Len(fallback_venues)
             /\ {venue.search_results[i].venue.venue_id :
                    i \in 1..Len(venue.search_results)} = FallbackIds)
    /\ [][RoundRun =>
            LET returned == venue'.last.returned
                ids == {returned[j].venue.venue_id : j \in 1..Len(returned)}
            IN  IF NoSourceResult(venue'.last)
                THEN /\ Len(returned) = Len(fallback_venues)
                     /\ ids = FallbackIds
                     /\ \A j \in 1..Len(returned) :
                           returned[j].source_api = "manual_fallback"
                ELSE /\ ids \cap FallbackIds = {}
                     /\ \A j \in 1..Len(returned) :
                           returned[j].source_api # "manual_fallback"]_vars

C29_Witness ==
    /\ venue.last.op = "participant_count_changed"
    /\ venue.evaluations = MaxEvaluations
    /\ venue.last.failed = {"google_places", "gurume"}
    /\ Len(venue.search_results) = 2
    /\ venue.search_results[1].venue.venue_id = "cafe_b_fallback"
    /\ venue.search_results[1].source_api = "manual_fallback"
    /\ venue.search_results[1].suitability_score > 0

Ranked(results) ==
    \A i, j \in 1..Len(results) :
        i < j => results[i].suitability_score >= results[j].suitability_score

PositionIn(results, venue_id) ==
    CHOOSE i \in 1..Len(results) : results[i].venue.venue_id = venue_id

(* The venue start() selected: a held result of maximal score, the first
   seen by the search among those of that score, with the booking status
   its source calls for. *)
BestSelected ==
    /\ Len(venue.selected_venue) = 1
    /\ LET selected == venue.selected_venue[1]
           held == venue.search_results
           chosen == PositionIn(held, selected.venue_id)
       IN  /\ \E i \in 1..Len(held) : held[i].venue.venue_id = selected.venue_id
           /\ \A j \in 1..Len(held) :
                 /\ held[chosen].suitability_score >= held[j].suitability_score
                 /\ held[chosen].suitability_score = held[j].suitability_score
                       => PositionIn(venue.last.returned, selected.venue_id)
                            <= PositionIn(venue.last.returned, held[j].venue.venue_id)
           /\ selected.booking_status =
                 IF held[chosen].source_api = "manual_fallback"
                 THEN "manual_required" ELSE "pending"

(* C30: the results the agent holds are one list over all sources in
   non-increasing order of suitability score; after start() the selected
   venue is a result of maximal score, the first seen among equal scores,
   and its booking status is manual_required when it comes from the
   fallback and pending otherwise. *)
C30_RankedAndBestSelected ==
    /\ Ranked(venue.search_results)
    /\ venue.last.op = "start" => BestSelected

(***************************************************************************)
(* A session in which an agent registers again while the workflow runs:    *)
(* registrations, start commands and completion and failure events in any *)
(* order, the phase moving on with the completions.                        *)
(***************************************************************************)
\* the scheduling agent registers a second time after the venue agent
RepeatingOrders ==
    {<<"participant_agent", "scheduling_agent", "venue_agent", "scheduling_agent">>}

\* COMMAND register_agent: _handle_agent_registration, for the agents of
\* RepeatingOrders
RegisterAgentAgain(name) ==
    /\ HandlersRegistered
    /\ \E order \in RepeatingOrders :
           /\ Len(coordination_session.active_agents) < Len(order)
           /\ order[Len(coordination_session.active_agents) + 1] = name
    /\ Apply(Outcome(TRUE,
                     [coordination_session EXCEPT
                         !.active_agents = Append(@, NewAgentInstance(name))],
                     <<>>, 1))
    /\ managed_agents' =
           [managed_agents EXCEPT
               ![name] = Len(coordination_session.active_agents) + 1]
    /\ response' = "registered"
    /\ recovery' = <<>>
    /\ lastOp' = Op("register_agent", name, NoValue)
    /\ UNCHANGED otherVars
    /\ UNCHANGED status

NextRepeating ==
    \/ Initialize
    \/ Start
    \/ \E name \in AgentNames : RegisterAgentAgain(name)
    \/ \E name \in AgentNames \cup {NoValue}, task \in TaskInputs :
           StartAgent(name, task)
    \/ \E name \in AgentNames \cup {NoValue} : \E result \in ResultInputs(name) :
           AgentCompleted(name, result)
    \/ \E name \in AgentNames \cup {NoValue} :
           \E error_message \in ErrorMessageInputs(name) :
               AgentFailed(name, error_message)

SpecRepeating == Init /\ [][NextRepeating]_vars

ActiveNames ==
    {Agents[i].agent_name : i \in {j \in 1..Len(Agents) : Agents[j].status = "active"}}

\* C31: at any time at most one of the agents participant, scheduling, venue
\* and calendar has status active in the session.
C31_AtMostOneActive == Cardinality(ActiveNames) <= 1

\* the session has just moved from schedule coordination straight to
\* calendar integration by a transition_phase command
VenueSkipped ==
    /\ lastOp.op = "transition_phase"
    /\ response = "success"
    /\ Session.current_phase = CALENDAR_INTEGRATION
    /\ Session.previous_phase = SCHEDULE_COORDINATION

\* C32: when the session moves directly from schedule coordination to
\* calendar integration and the calendar agent is registered, the calendar
\* agent is started in the new phase: its instance is active.
C32_SkipStartsCalendar ==
    (VenueSkipped /\ Registered("calendar_agent"))
        => Agents[managed_agents["calendar_agent"]].status = "active"

\* the agent of InitThreshold after three search_venues commands in which
\* Google Places raised at once and gurume answered, all at moment 0; the
\* count of rounds starts again from there
ThriceFailed ==
    LET raising == Answer(mock_google_places_search, <<0>>)
        answering == Answer(mock_gurume_search, <<>>)
        once(a) == handle_search_venues(a, raising, answering, TRUE)
    IN  [once(once(once(NewVenueAgent("dining", 0, TRUE, TRUE))))
            EXCEPT !.rounds = 0]

InitSkipped ==
    /\ EngineConstructed
    /\ agent = NoValue
    /\ call = NoValue
    /\ store = NoValue
    /\ writers = NoValue
    /\ instances = NoValue
    /\ scheduler = NoValue
    /\ venue = ThriceFailed

SpecSkipped == InitSkipped /\ [][NextThreshold]_vars

\* the moment of the last failure recorded for a source, -1 if none
LastFailureOf(api_name) ==
    LET times == {venue.api_failures[i].failure_time :
                     i \in {j \in 1..Len(venue.api_failures) :
                               venue.api_failures[j].api_name = api_name}}
    IN IF times = {} THEN -1 ELSE Max(times)

\* C33: a round queries a source exactly when fewer than three of its
\* recorded failures lie in the trailing five minutes, so a skipped source
\* is eligible again as soon as that holds; a round that skips a source
\* records no failure for it; and a source is never skipped five minutes
\* or more after its last recorded failure.
C33_SkippedSourceRecovers ==
    [][RoundRun =>
        \A n \in {"google_places", "gurume"} :
            /\ n \in venue'.last.queried <=>
                  FailedRoundsInWindow(n) < FailureThreshold
            /\ n \notin venue'.last.queried =>
                  /\ \A i \in 1..Len(NewFailures) : NewFailures[i].api_name # n
                  /\ LastFailureOf(n) >= 0
                  /\ (venue.now - LastFailureOf(n)) * TickSeconds
                        < FailureWindowSeconds]_vars

\* a source that was skipped is queried again once its failures have aged
C33_Witness ==
    /\ venue.rounds = 2
    /\ venue.now = MaxTime
    /\ venue.last.queried = {"google_places", "gurume"}
    /\ Len(venue.api_failures) = 3
    /\ \A i \in 1..Len(venue.api_failures) :
          /\ venue.api_failures[i].api_name = "google_places"
          /\ venue.api_failures[i].failure_time = 0

\* C34: an agent_completed event naming an agent of which no instance is
\* active (completed, idle, waiting, failed or not registered) leaves the
\* agent statuses, completed_agents, the checkpoints and current_phase as
\* they were.
C34_CompletionOfInactiveIgnored ==
    [][lastOp'.op = "agent_completed" =>
        \A name \in (AgentNames \cup {NoValue}) \ ActiveNames :
        \A result \in ResultInputs(name) :
            AgentCompleted(name, result) =>
                /\ StatusesOf(Session') = StatusesOf(Session)
                /\ Session'.completed_agents = Session.completed_agents
                /\ Session'.checkpoints = Checkpoints
                /\ Session'.current_phase = Session.current_phase]_vars

\* a completion event arrived again for an agent that has completed, while
\* the worker of the current phase is active, and nothing was written
C34_Witness ==
    /\ lastOp.op = "agent_completed"
    /\ persisted = 0
    /\ Len(Session.completed_agents) = 2
    /\ Session.current_phase = VENUE_COORDINATION
    /\ \E i \in 1..Len(Agents) : Agents[i].status = "active"


Occurrences(seq, x) == Cardinality({i \in 1..Len(seq) : seq[i] = x})

CompletedNames ==
    {Agents[i].agent_name :
        i \in {j \in 1..Len(Agents) : Agents[j].status = "completed"}}

\* C35: an agent name is in completed_agents exactly when that agent's
\* status is completed, and it is there at most once.
C35_CompletedListMatchesStatus ==
    \A name \in AgentNames :
        /\ Occurrences(Session.completed_agents, name) <= 1
        /\ Occurrences(Session.completed_agents, name) = 1
              <=> name \in CompletedNames


InstancesNamed(name) == {i \in 1..Len(Agents) : Agents[i].agent_name = name}

\* C36: every agent name has at most one instance in the session, and the
\* instance the engine tracks for a registered name is that instance, the one
\* the session starts, completes and fails.
C36_OneInstancePerName ==
    \A name \in AgentNames :
        /\ Cardinality(InstancesNamed(name)) <= 1
        /\ Registered(name) =>
              managed_agents[name] = FirstNamed(Agents, name)


\* C37: once an engine is initialized, on a new session or on one it loaded
\* from the store, every agent recorded in its session is known to it: a start
\* of such an agent passes the registration test of _start_agent, and an idle
\* agent without dependencies is started.
C37_ResumedAgentsKnown ==
    \A w \in WriterIds :
        writers[w].pc = "idle" =>
            \A i \in 1..Len(writers[w].session.active_agents) :
                LET a == writers[w].session.active_agents[i]
                IN /\ writers[w].managed_agents[a.agent_name] # 0
                   /\ (a.status = "idle" /\ agent_dependencies(a.agent_name) = <<>>)
                         => StartAgentImpl(writers[w].session,
                                           writers[w].managed_agents,
                                           a.agent_name, NoValue).ok


(***************************************************************************)
(* An engine whose stored document is deleted under it: every later        *)
(* update raises DocumentNotFoundError, after the engine has already       *)
(* changed its copy of the session.                                        *)
(***************************************************************************)
\* BaseRepository.delete: <<deleted, document after>>
delete(doc) ==
    IF ~doc.exists THEN <<FALSE, doc>> ELSE <<TRUE, NoDocument>>

\* _handle_start_agent_command with _start_agent: <<engine after, document
\* after>>; an update that raises leaves _start_agent where the session is
\* already changed, and _handle_command answers with status "error"
handle_start_agent_command(doc, wr, agent_name, task) ==
    LET o == StartAgentImpl(wr.session, wr.managed_agents, agent_name, task)
    IN IF o.persisted = 0 THEN <<[wr EXCEPT !.result = "failed"], doc>>
       ELSE LET u == update(doc, o.s)
            IN IF u[1] = "raised"
               THEN <<[wr EXCEPT !.session = o.s, !.result = "error"], doc>>
               ELSE <<[wr EXCEPT !.session = o.s,
                                 !.result = IF o.ok THEN "success" ELSE "failed"],
                      u[2]>>

\* _handle_phase_transition_command with _transition_to_phase: the first
\* update follows transition_to_phase, before the broadcast and the start of
\* the phase's agent
handle_phase_transition_command(doc, wr, target_phase) ==
    LET t == transition_to_phase(wr.session, target_phase)
    IN IF ~t[1] THEN <<[wr EXCEPT !.result = "failed"], doc>>
       ELSE LET u == update(doc, t[2])
            IN IF u[1] = "raised"
               THEN <<[wr EXCEPT !.session = t[2], !.result = "error"], doc>>
               ELSE LET a == StartPhaseAgents(t[2], wr.managed_agents,
                                              target_phase)
                    IN <<[wr EXCEPT !.session = a.s, !.result = "success"],
                         update(u[2], a.s)[2]>>

\* _handle_event with _handle_agent_completion: the update follows
\* complete_agent, before _check_phase_completion; an update that raises is
\* logged by _handle_event
handle_agent_completion(doc, wr, agent_name, result_data) ==
    LET c == complete_agent(wr.session, agent_name, result_data)
    IN IF agent_name = NoValue \/ ~c[1]
       THEN <<[wr EXCEPT !.result = "ignored"], doc>>
       ELSE LET u == update(doc, c[2])
            IN IF u[1] = "raised"
               THEN <<[wr EXCEPT !.session = c[2], !.result = "error"], doc>>
               ELSE LET o == CheckPhaseCompletion(c[2], wr.managed_agents)
                    IN <<[wr EXCEPT !.session = o.s, !.result = "success"],
                         update(u[2], o.s)[2]>>

\* the engine that works while the document comes and goes
OutageWriters == {"writer_1"}

Handled(w, h) ==
    /\ writers[w].pc = "idle"
    /\ WithinBounds(h[1].session)
    /\ writers' = [writers EXCEPT ![w] = h[1]]
    /\ store' = h[2]
    /\ UNCHANGED <<engineVars, substrateVars, instances, plannerVars>>

StoredStartAgent(w, name, task) ==
    \E h \in {handle_start_agent_command(store, writers[w], name, task)} :
        Handled(w, h)

StoredTransitionPhase(w, target_phase) ==
    \E h \in {handle_phase_transition_command(store, writers[w], target_phase)} :
        Handled(w, h)

StoredAgentCompleted(w, name, result) ==
    \E h \in {handle_agent_completion(store, writers[w], name, result)} :
        Handled(w, h)

\* the session document is deleted from the collection
StoreDelete ==
    /\ \E d \in {delete(store)} : d[1] /\ store' = d[2]
    /\ UNCHANGED writers
    /\ UNCHANGED <<engineVars, substrateVars, instances, plannerVars>>

NextOutage ==
    \/ \E w \in OutageWriters : WriterLoad(w)
    \/ \E w \in OutageWriters : WriterCreate(w)
    \/ \E w \in OutageWriters, name \in WriterAgentNames :
           WriterRegisterAgent(w, name)
    \/ \E w \in OutageWriters, name \in WriterAgentNames, task \in TaskInputs :
           StoredStartAgent(w, name, task)
    \/ \E w \in OutageWriters, p \in WriterPhaseInputs :
           StoredTransitionPhase(w, p)
    \/ \E w \in OutageWriters, name \in WriterAgentNames :
           \E result \in ResultInputs(name) :
               StoredAgentCompleted(w, name, result)
    \/ StoreDelete

SpecOutage == InitStore /\ [][NextOutage]_vars

\* C38: a start, a phase transition or a completion whose update raises
\* reports the failure and leaves the engine's session as it was before the
\* operation.
C38_FailedPersistLeavesSession ==
    [][\A w \in OutageWriters :
           (/\ writers[w].pc = "idle"
            /\ writers'[w] # writers[w]
            /\ writers'[w].result = "error")
               => writers'[w].session = writers[w].session]_vars


(***************************************************************************)
(* send_message on a bus whose publish always raises.  send_message hands  *)
(* the exception to _handle_error, _handle_error calls report_error, and  *)
(* report_error calls send_message again: the calls nest, one frame each,  *)
(* until a callback raises or the interpreter refuses a further frame.    *)
(***************************************************************************)
\* the frames the interpreter lets a chain of calls nest
RecursionLimit == 12
\* the frames of the caller below the first send_message
MaxSenderDepth == 2
\* the calls one failed publish nests on top of its send_message
ReportCalls == <<"_handle_error", "report_error", "send_message">>
FramesPerReport == Len(ReportCalls)

FailingBus == "failing_bus"

\* the error callbacks an agent has registered when it sends
CallbackLists ==
    {<<>>, <<"callback_ok">>, <<"callback_raise">>,
     <<"callback_ok", "callback_raise">>}

\* a send_message in progress: the message at publish, the frames in use,
\* the publish attempts, reports and callbacks so far, and how it ended
Sending(m, sender_depth) ==
    [op |-> "send_message", message_type |-> m.message_type,
     sender_depth |-> sender_depth, frames |-> sender_depth + 1,
     attempts |-> 0, reports |-> 0, callbacks |-> 0, pc |-> "publish",
     recursion_error |-> FALSE, propagating |-> FALSE, raised |-> NoValue]

InitFailingBus ==
    /\ EngineConstructed
    /\ agent \in {[NewAgent(AgentId, e, SessionIdOfAgent) EXCEPT
                      !.status = "active", !.message_bus = FailingBus,
                      !.error_handlers = hs] :
                     e \in EventIds, hs \in CallbackLists}
    /\ call \in {Sending(m, d) : m \in SentMessages, d \in 0..MaxSenderDepth}
    /\ scheduler = NoValue
    /\ venue = NoValue
    /\ store = NoValue
    /\ writers = NoValue
    /\ instances = NoValue

\* publish raises inside send_message: the except clause awaits
\* _handle_error, which runs the callbacks and, unless one of them raised,
\* report_error, which builds an error report and awaits send_message
PublishRaises ==
    /\ call.pc = "publish"
    /\ call.frames + FramesPerReport <= RecursionLimit
    /\ LET invoked == InvokedCallbacks(agent.error_handlers)
           stopped == Len(invoked) > 0 /\ invoked[Len(invoked)] = "callback_raise"
       IN call' = [call EXCEPT
              !.attempts = @ + 1,
              !.callbacks = @ + Len(invoked),
              !.reports = IF stopped THEN @ ELSE @ + 1,
              !.frames = IF stopped THEN @ ELSE @ + FramesPerReport,
              !.message_type = IF stopped THEN @ ELSE "error_report",
              !.pc = IF stopped THEN "unwinding" ELSE "publish"]
    /\ UNCHANGED agent
    /\ UNCHANGED engineVars
    /\ UNCHANGED <<store, writers, instances, plannerVars>>

\* publish raises and the frames of a further report do not fit: the
\* interpreter raises RecursionError in the nested calls, and the except
\* clause of the nearest _handle_error that has room to log swallows it
StackExhausted ==
    /\ call.pc = "publish"
    /\ call.frames + FramesPerReport > RecursionLimit
    /\ call' = [call EXCEPT !.attempts = @ + 1, !.recursion_error = TRUE,
                            !.propagating = TRUE, !.pc = "unwinding"]
    /\ UNCHANGED agent
    /\ UNCHANGED engineVars
    /\ UNCHANGED <<store, writers, instances, plannerVars>>

\* a nested send_message returns: report_error counts the error unless the
\* exception passed through it, _handle_error returns, and the send_message
\* below returns; the first send_message returns nothing to its caller
ChainReturns ==
    /\ call.pc = "unwinding"
    /\ IF call.frames = call.sender_depth + 1
       THEN /\ call' = [call EXCEPT !.pc = "returned"]
            /\ UNCHANGED agent
       ELSE /\ call' = [call EXCEPT !.frames = @ - FramesPerReport,
                                    !.propagating = FALSE]
            /\ agent' = [agent EXCEPT !.metrics.errors_count =
                             IF call.propagating THEN @ ELSE @ + 1]
    /\ UNCHANGED engineVars
    /\ UNCHANGED <<store, writers, instances, plannerVars>>

NextFailingBus == PublishRaises \/ StackExhausted \/ ChainReturns

SpecFailingBus == InitFailingBus /\ [][NextFailingBus]_vars

\* C39: a send_message whose bus fails on every publish returns without an
\* exception after a number of publish attempts that the code bounds: the
\* report of a failed send does not trigger further sends and reports until
\* the interpreter's stack is used up.
C39_FailureReportChainBounded ==
    /\ call.raised = NoValue
    /\ ~call.recursion_error


\* C40: the selected schedule of the scheduling agent, when one is set, is
\* one of the options of the current option list, and none is set while the
\* current option list is empty.
C40_SelectedAmongOptions ==
    /\ Len(scheduler.selected_schedule) > 0 =>
          \E k \in 1..Len(scheduler.schedule_options) :
              scheduler.schedule_options[k] = scheduler.selected_schedule[1]
    /\ scheduler.schedule_options = <<>> => scheduler.selected_schedule = <<>>

====
